---- MODULE Spec2Model ----
(***************************************************************************)
(* Model of the supply phase of the ruby-freetds buildpack                 *)
(* (src/src/ruby/supply/supply.go).  One behaviour is one call of Run on   *)
(* a Supplier: pc is the position inside Run (and inside the multi-call    *)
(* steps InstallBundler and InstallGems), every collaborator call          *)
(* (Manifest, Installer, Stager, Versions, Cache, Command, TempDir, os)    *)
(* answers nondeterministically with success or an error.                  *)
(***************************************************************************)
EXTENDS Integers, Sequences, FiniteSets, TLC

\* ------------------------------------------------------------------ bounds
\* A catalog lists at most MaxCatalog bundler versions.
MaxCatalog == 2

\* ---------------------------------------------------------------- versions
\* A version is <<major, minor, patch>>.  The catalog of manifest.yml lists
\* bundler 1.17.3 and 2.0.1; the universe adds a lower version of major 1
\* and one version that neither 1.X.X nor 2.X.X matches.
NoVersion == <<0, 0, 0>>
AllVersions == {<<1, 16, 6>>, <<1, 17, 3>>, <<2, 0, 1>>, <<3, 0, 0>>}
Catalogs == {c \in SUBSET AllVersions : Cardinality(c) <= MaxCatalog}

\* Semantic-version ordering.
VersionLess(a, b) ==
    \/ a[1] < b[1]
    \/ a[1] = b[1] /\ a[2] < b[2]
    \/ a[1] = b[1] /\ a[2] = b[2] /\ a[3] < b[3]

\* The candidates of `versions` that satisfy the constraint <major>.X.X.
Matching(major, versions) == {v \in versions : v[1] = major}

\* libbuildpack.FindMatchingVersion("<major>.X.X", versions): the highest
\* matching version, NoVersion standing for the error "no match found".
FindMatchingVersion(major, versions) ==
    IF Matching(major, versions) = {} THEN NoVersion
    ELSE CHOOSE v \in Matching(major, versions) :
             \A w \in Matching(major, versions) : w = v \/ VersionLess(w, v)

\* ------------------------------------------------------------------- paths
\* A path of the dependency area is <<directory, name, version>>: the
\* directory as a sequence of components, the entry's name with the version
\* it is formatted with (fmt.Sprintf("bundler-%s", version)) kept apart.
Path(dir, name, v) == <<dir, name, v>>

\* The contents of the bundler archive for version v, extracted into `root`:
\* bin/bundle, gems/bundler-<v>/ and specifications/bundler-<v>.gemspec.
BundlerArchive(root, v) ==
    { Path(<<root, "bin">>, "bundle", v),
      Path(<<root, "gems">>, "bundler-%s", v),
      Path(<<root, "gems">>, "bundler-%s/lib", v),
      Path(<<root, "specifications">>, "bundler-%s.gemspec", v) }

\* The gem directory bundler/gems/bundler-<v> with what is below it.
GemDir(root, v) ==
    { Path(<<root, "gems">>, "bundler-%s", v),
      Path(<<root, "gems">>, "bundler-%s/lib", v) }
GemSpec(root, v) == { Path(<<root, "specifications">>, "bundler-%s.gemspec", v) }

\* Everything below the top-level directory `root` (os.RemoveAll(root)).
Below(root, files) == {p \in files : p[1][1] = root}

\* Stager.LinkDirectoryInDepDir(<root>/bin, "bin"): one link in bin/ per
\* entry of <root>/bin.
BinLinks(root, files) ==
    { Path(<<"bin">>, p[2], p[3]) : p \in {q \in files : q[1] = <<root, "bin">>} }

\* ------------------------------------------------------------------- state
VARIABLES
    pc,                 \* position in Run
    result,             \* "running", "ok" (Run returned nil), "error"
    steps,              \* the steps of Run started so far, in order
    stepErr,            \* the step whose error Run holds in err ("" for nil)
    calls,              \* collaborator calls made so far, in order
    warnings,           \* Log.Warning calls so far, in order
    gemfileExists,      \* the application has a Gemfile
    gemfileLockExists,  \* the application has a Gemfile.lock
    catalog,            \* Manifest.AllDependencyVersions("bundler")
    gemEngine,          \* what Versions.Engine() answers ("unread" before)
    gemVersion,         \* what Versions.Version()/JrubyVersion() answered
    appHasGemfile,      \* Supplier.appHasGemfile
    appHasGemfileLock,  \* Supplier.appHasGemfileLock
    cachedNeedsNode,    \* Supplier.cachedNeedsNode
    needsNode,          \* Supplier.needsNode
    bundlerVersion,     \* Versions.SetBundlerVersion / GetBundlerVersion
    bundlerOneVersion,  \* local of InstallBundler
    bundlerTwoVersion,  \* local of InstallBundler
    compat,             \* answers of CheckBundler2Compatibility, in order
    engine,             \* local of Run, set from DetermineRuby
    rubyVersion,        \* local of Run, set from DetermineRuby
    depFiles,           \* paths present in the dependency area
    profileD,           \* names of the profile.d fragments written
    scratch,            \* the scratch copy of the build directory
    nodeOnPath,         \* `node --version` succeeds in the build directory
    gemAnswers,         \* what Versions.HasGemVersion answers, per gem name
    yarnLock,           \* what FileExists(BuildDir/yarn.lock) answers
    probes,             \* the probes NeedsNode has executed, in order
    answers,            \* the values the calls of NeedsNode returned, in order
    installs,           \* InstallNode / InstallYarn invocations and installs
    npc,                \* position in the `if s.NeedsNode()` block of Run
    env,                \* the process environment (os.Getenv / os.Setenv)
    envFiles,           \* the files written by Stager.WriteEnvFile
    defaults,           \* the `environment` argument of writeEnvFiles
    clobber,            \* the `clobber` argument of writeEnvFiles
    envLog,             \* the state at the start and after every application
    tree,               \* the regular files below the build directory
    digests,            \* what the calls of CalcChecksum returned, in order
    changes,            \* the number of file changes since the last CalcChecksum
    shTree,             \* the files, directories and links of the dependency area
    shpc,               \* position in the steps of Run around RewriteShebangs
    gfiles,             \* the inode every path InstallGems works on names
    gnodes,             \* the content of every inode
    gpc,                \* position in InstallGems
    gret,               \* what InstallGems returned ("" before)
    gruns,              \* the calls InstallGems made, in order
    secApp,             \* the application: Gemfile, lock file, rails >= 4.1
    savedCache,         \* what Cache.Save has persisted for the application
    metadata,           \* Cache.Metadata().SecretKeyBase in the running process
    secpc,              \* position in the run
    secRuns,            \* the runs so far, the running one last
    rgIn,               \* what a call of UpdateRubygems finds
    rgOut,              \* what the call did and returned (empty before)
    wIn,                \* the padding of an IndentedWriter and the bytes written
    wp,                 \* p in the innermost frame of Write
    wdepth,             \* the number of frames of Write on the stack
    wunder,             \* what the underlying writer w.w has been handed
    wstate              \* "called", "running", "fatal"

bundlerVars == <<bundlerVersion, bundlerOneVersion, bundlerTwoVersion, compat>>
appVars == <<gemfileExists, gemfileLockExists, catalog>>
flagVars == <<appHasGemfile, appHasGemfileLock>>
nodeVars == <<cachedNeedsNode, needsNode>>
rubyVars == <<engine, rubyVersion, gemVersion>>

\* The variables of the three component specifications (NeedsNode with the
\* node block of Run, writeEnvFiles, CalcChecksum); a run of Run leaves them
\* alone.
probeVars == <<nodeOnPath, gemAnswers, yarnLock, probes, answers, installs, npc>>
envVars == <<env, envFiles, defaults, clobber, envLog>>
sumVars == <<tree, digests, changes>>
\* The variables of the further component specifications (RewriteShebangs,
\* InstallGems on the files, WriteProfileD with the cache, UpdateRubygems,
\* IndentedWriter).
shebangVars == <<shTree, shpc>>
gemsVars == <<gfiles, gnodes, gpc, gret, gruns>>
secretVars == <<secApp, savedCache, metadata, secpc, secRuns>>
rubygemsVars == <<rgIn, rgOut>>
writerVars == <<wIn, wp, wdepth, wunder, wstate>>
moreVars == <<shebangVars, gemsVars, secretVars, rubygemsVars, writerVars>>
sideVars == <<probeVars, envVars, sumVars, moreVars>>

vars == <<pc, result, steps, stepErr, calls, warnings, gemfileExists,
          gemfileLockExists, catalog, gemEngine, gemVersion, appHasGemfile,
          appHasGemfileLock, cachedNeedsNode, needsNode, bundlerVersion,
          bundlerOneVersion, bundlerTwoVersion, compat, engine, rubyVersion,
          depFiles, profileD, scratch, sideVars>>

\* The scratch copy made by CopyDirToTemp: `outer` is the directory made by
\* ioutil.TempDir, `copy` the copy of the build directory inside it (the
\* path CopyDirToTemp returns), `lock` and `config` whether the copy holds
\* Gemfile.lock and .bundle/config.
NoScratch == [outer |-> FALSE, copy |-> FALSE, lock |-> FALSE, config |-> "none"]

Range(seq) == {seq[i] : i \in 1..Len(seq)}

\* A mapping with no entry (an empty environment, no files).
EmptyMap == [n \in {} |-> ""]

\* The component variables in a run of Run, which does not use them.
ProbeIdle ==
    /\ nodeOnPath = FALSE
    /\ gemAnswers = EmptyMap
    /\ yarnLock = ""
    /\ probes = <<>>
    /\ answers = <<>>
    /\ installs = <<>>
    /\ npc = ""
EnvIdle ==
    /\ env = EmptyMap
    /\ envFiles = EmptyMap
    /\ defaults = EmptyMap
    /\ clobber = FALSE
    /\ envLog = <<>>
SumIdle ==
    /\ tree = EmptyMap
    /\ digests = <<>>
    /\ changes = 0
ShebangIdle ==
    /\ shTree = EmptyMap
    /\ shpc = ""
GemsIdle ==
    /\ gfiles = EmptyMap
    /\ gnodes = <<>>
    /\ gpc = ""
    /\ gret = ""
    /\ gruns = <<>>
SecretIdle ==
    /\ secApp = EmptyMap
    /\ savedCache = EmptyMap
    /\ metadata = <<>>
    /\ secpc = ""
    /\ secRuns = <<>>
RubygemsIdle ==
    /\ rgIn = EmptyMap
    /\ rgOut = <<>>
WriterIdle ==
    /\ wIn = EmptyMap
    /\ wp = <<>>
    /\ wdepth = 0
    /\ wunder = <<>>
    /\ wstate = ""
MoreIdle == ShebangIdle /\ GemsIdle /\ SecretIdle /\ RubygemsIdle /\ WriterIdle

\* The variables of Run, but for the memo fields of the Supplier, in a
\* component specification: a Supplier fresh from construction.
runVars == <<pc, result, steps, stepErr, calls, warnings, gemfileExists,
             gemfileLockExists, catalog, gemEngine, gemVersion, appHasGemfile,
             appHasGemfileLock, bundlerVersion, bundlerOneVersion,
             bundlerTwoVersion, compat, engine, rubyVersion, depFiles, profileD,
             scratch>>
RunIdle ==
    /\ pc = ""
    /\ result = ""
    /\ steps = <<>>
    /\ stepErr = ""
    /\ calls = <<>>
    /\ warnings = <<>>
    /\ gemfileExists = TRUE
    /\ gemfileLockExists = TRUE
    /\ catalog = {}
    /\ gemEngine = "unread"
    /\ gemVersion = "unread"
    /\ appHasGemfile = FALSE
    /\ appHasGemfileLock = FALSE
    /\ bundlerVersion = NoVersion
    /\ bundlerOneVersion = NoVersion
    /\ bundlerTwoVersion = NoVersion
    /\ compat = <<>>
    /\ engine = ""
    /\ rubyVersion = ""
    /\ depFiles = {}
    /\ profileD = {}
    /\ scratch = NoScratch

\* A Supplier fresh from construction.
SupplierIdle ==
    /\ RunIdle
    /\ cachedNeedsNode = FALSE
    /\ needsNode = FALSE

\* Everything but the variables of one component, for the actions and the
\* initial state of that component.
firstVars == <<runVars, nodeVars, probeVars, envVars, sumVars>>
FirstIdle == SupplierIdle /\ ProbeIdle /\ EnvIdle /\ SumIdle
outsideShebang == <<firstVars, gemsVars, secretVars, rubygemsVars, writerVars>>
OutsideShebangIdle == FirstIdle /\ GemsIdle /\ SecretIdle /\ RubygemsIdle /\ WriterIdle
outsideGems == <<firstVars, shebangVars, secretVars, rubygemsVars, writerVars>>
OutsideGemsIdle == FirstIdle /\ ShebangIdle /\ SecretIdle /\ RubygemsIdle /\ WriterIdle
outsideSecret == <<firstVars, shebangVars, gemsVars, rubygemsVars, writerVars>>
OutsideSecretIdle == FirstIdle /\ ShebangIdle /\ GemsIdle /\ RubygemsIdle /\ WriterIdle
outsideRubygems == <<firstVars, shebangVars, gemsVars, secretVars, writerVars>>
OutsideRubygemsIdle == FirstIdle /\ ShebangIdle /\ GemsIdle /\ SecretIdle /\ WriterIdle
outsideWriter == <<firstVars, shebangVars, gemsVars, secretVars, rubygemsVars>>
OutsideWriterIdle == FirstIdle /\ ShebangIdle /\ GemsIdle /\ SecretIdle /\ RubygemsIdle

Init ==
    /\ pc = "DefaultVersionFreetds"
    /\ result = "running"
    /\ steps = <<>>
    /\ stepErr = ""
    /\ calls = <<>>
    /\ warnings = <<>>
    /\ gemfileExists \in BOOLEAN
    /\ gemfileLockExists \in BOOLEAN
    /\ catalog \in Catalogs
    /\ gemEngine = "unread"
    /\ gemVersion = "unread"
    /\ appHasGemfile = FALSE
    /\ appHasGemfileLock = FALSE
    /\ cachedNeedsNode = FALSE
    /\ needsNode = FALSE
    /\ bundlerVersion = NoVersion
    /\ bundlerOneVersion = NoVersion
    /\ bundlerTwoVersion = NoVersion
    /\ compat = <<>>
    /\ engine = ""
    /\ rubyVersion = ""
    /\ depFiles = {}
    /\ profileD = {}
    /\ scratch = NoScratch
    /\ ProbeIdle
    /\ EnvIdle
    /\ SumIdle
    /\ MoreIdle

\* ----------------------------------------------------------- control flow
\* `return err` of Run: the step `step` returned an error.
Fail(step) ==
    /\ pc' = "done"
    /\ result' = "error"
    /\ stepErr' = step

\* The step succeeded; Run goes on with `next`.
Goto(next) ==
    /\ pc' = next
    /\ result' = result
    /\ stepErr' = ""

\* A step whose error Run discards (`_ =`, `if ...; err == nil`).
Ignore(step, ok, next) ==
    /\ pc' = next
    /\ result' = result
    /\ stepErr' = IF ok THEN "" ELSE step

Enter(step) == steps' = Append(steps, step)

Call(c) == calls' = Append(calls, c)

\* A step of Run that is one collaborator call: it succeeds or returns an
\* error, and Run returns that error.
Opaque(step, next) ==
    /\ pc = step
    /\ Enter(step)
    /\ \E ok \in BOOLEAN : IF ok THEN Goto(next) ELSE Fail(step)

\* ------------------------------------------------- Run, up to Cache.Restore
\* freetds, err := s.Manifest.DefaultVersion("freetds")
DefaultVersionFreetds ==
    /\ Opaque("DefaultVersionFreetds", "InstallFreetds")
    /\ UNCHANGED <<calls, warnings, appVars, sideVars, gemEngine, flagVars, nodeVars,
                   bundlerVars, rubyVars, depFiles, profileD, scratch>>

\* s.Installer.InstallDependency(freetds, freeTDSInstallDir)
InstallFreetds ==
    /\ pc = "InstallFreetds"
    /\ Enter("InstallFreetds")
    /\ Call(<<"Installer", "freetds">>)
    /\ \E ok \in BOOLEAN :
         IF ok
         THEN /\ depFiles' = depFiles \cup {Path(<<"freetds", "lib">>, "libsybdb.so", NoVersion)}
              /\ Goto("WriteProfileDFreetds")
         ELSE /\ depFiles' = depFiles
              /\ Fail("InstallFreetds")
    /\ UNCHANGED <<warnings, appVars, sideVars, gemEngine, flagVars, nodeVars,
                   bundlerVars, rubyVars, profileD, scratch>>

\* s.Stager.WriteProfileD("finalize_freetds.sh", ...)
WriteProfileDFreetds ==
    /\ pc = "WriteProfileDFreetds"
    /\ Enter("WriteProfileDFreetds")
    /\ Call(<<"Stager", "WriteProfileD">>)
    /\ \E ok \in BOOLEAN :
         IF ok
         THEN /\ profileD' = profileD \cup {"finalize_freetds.sh"}
              /\ Goto("Touch")
         ELSE /\ profileD' = profileD
              /\ Fail("WriteProfileDFreetds")
    /\ UNCHANGED <<warnings, appVars, sideVars, gemEngine, flagVars, nodeVars,
                   bundlerVars, rubyVars, depFiles, scratch>>

\* _ = s.Command.Execute(..., "touch", "/tmp/checkpoint"): the error is dropped.
Touch ==
    /\ pc = "Touch"
    /\ Enter("Touch")
    /\ \E ok \in BOOLEAN : Ignore("Touch", ok, "CalcChecksumBefore")
    /\ UNCHANGED <<calls, warnings, appVars, sideVars, gemEngine, flagVars, nodeVars,
                   bundlerVars, rubyVars, depFiles, profileD, scratch>>

\* if checksum, err := s.CalcChecksum(); err == nil { Debug }: diagnostic only.
CalcChecksumBefore ==
    /\ pc = "CalcChecksumBefore"
    /\ Enter("CalcChecksumBefore")
    /\ \E ok \in BOOLEAN : Ignore("CalcChecksumBefore", ok, "Setup")
    /\ UNCHANGED <<calls, warnings, appVars, sideVars, gemEngine, flagVars, nodeVars,
                   bundlerVars, rubyVars, depFiles, profileD, scratch>>

\* Supplier.Setup: FileExists(Gemfile), then FileExists(Gemfile.lock).
Setup ==
    /\ pc = "Setup"
    /\ Enter("Setup")
    /\ \E o \in {"ok", "gemfileErr", "lockErr"} :
         /\ appHasGemfile' = IF o = "gemfileErr" THEN appHasGemfile ELSE gemfileExists
         /\ appHasGemfileLock' = IF o = "ok" THEN gemfileLockExists ELSE appHasGemfileLock
         /\ IF o = "ok" THEN Goto("CacheRestore") ELSE Fail("Setup")
    /\ UNCHANGED <<calls, warnings, appVars, sideVars, gemEngine, nodeVars,
                   bundlerVars, rubyVars, depFiles, profileD, scratch>>

\* Cache.Restore with its error dropped instead of returned.
CacheRestoreIgnoresError ==
    /\ pc = "CacheRestore"
    /\ Enter("CacheRestore")
    /\ \E ok \in BOOLEAN : Ignore("CacheRestore", ok, "InstallBundler")
    /\ Call(<<"Cache", "Restore">>)
    /\ UNCHANGED <<warnings, appVars, sideVars, gemEngine, flagVars, nodeVars,
                   bundlerVars, rubyVars, depFiles, profileD, scratch>>

\* s.Cache.Restore()
CacheRestore ==
    /\ Opaque("CacheRestore", "InstallBundler")
    /\ Call(<<"Cache", "Restore">>)
    /\ UNCHANGED <<warnings, appVars, sideVars, gemEngine, flagVars, nodeVars,
                   bundlerVars, rubyVars, depFiles, profileD, scratch>>

\* ---------------------------------------------------------- InstallBundler
\* The majors of the constraints "1.X.X" and "2.X.X".
BundlerOneMajor == 1
BundlerTwoMajor == 2

\* Variant: the secondary is extracted into the primary's directory.
BundlerTwoInstallDirShared == "bundler"
\* installDir of installBundlerTwo: filepath.Join(DepDir, "bundler2").
BundlerTwoInstallDir == "bundler2"

\* Variant: the rollback sets an unset version.
RollbackVersionUnset(one, two) == NoVersion
\* The version InstallBundler makes active after a negative compatibility
\* answer: s.Versions.SetBundlerVersion(bundlerOneVersion).
RollbackVersion(one, two) == one

\* Variant: the gemspec is left behind.
UninstallTargetsGemOnly(v) == GemDir("bundler", v)
\* What uninstallBundlerTwo removes for version v: the gem directory and the
\* gemspec below DepDir/bundler.
UninstallTargets(v) == GemDir("bundler", v) \cup GemSpec("bundler", v)

\* s.Log.Warning("Ruby version not compatible with Bundler 2")
CompatibilityWarning == "Ruby version not compatible with Bundler 2"

\* Variant: a negative answer is returned as an error.
OnCompatibilityFalseFails(r) ==
    CASE r = "err" -> "fail" [] r = "true" -> "keep" [] OTHER -> "fail"
\* What InstallBundler does with an answer of CheckBundler2Compatibility:
\* "fail" (return err), "keep" (return nil) or "rollback".
OnCompatibility(r) ==
    CASE r = "err" -> "fail" [] r = "true" -> "keep" [] OTHER -> "rollback"

\* installBundlerOne, SetBundlerVersion(bundlerOneVersion) and the
\* `if !s.appHasGemfile { return nil }` that follows.
installBundlerOne ==
    /\ pc = "InstallBundler"
    /\ Enter("InstallBundler")
    /\ LET v == FindMatchingVersion(BundlerOneMajor, catalog)
           archive == BundlerArchive("bundler", v)
       IN IF v = NoVersion
          THEN /\ Fail("InstallBundler")
               /\ UNCHANGED <<calls, depFiles, bundlerVars>>
          ELSE /\ Call(<<"Installer", "bundler">>)
               /\ \E o \in {"ok", "installErr", "linkErr"} :
                    /\ depFiles' = CASE o = "installErr" -> depFiles
                                     [] o = "linkErr" -> depFiles \cup archive
                                     [] OTHER -> depFiles \cup archive
                                                   \cup BinLinks("bundler", archive)
                    /\ IF o = "ok"
                       THEN /\ bundlerOneVersion' = v
                            /\ bundlerVersion' = v
                            /\ Goto(IF appHasGemfile THEN "installBundlerTwo"
                                    ELSE "CreateDefaultEnv")
                       ELSE /\ Fail("InstallBundler")
                            /\ UNCHANGED <<bundlerOneVersion, bundlerVersion>>
               /\ UNCHANGED <<bundlerTwoVersion, compat>>
    /\ UNCHANGED <<warnings, appVars, sideVars, gemEngine, flagVars, nodeVars,
                   rubyVars, profileD, scratch>>

\* libbuildpack.CopyDirectory / CopyFile from below `src` to below `dst`:
\* the entries of `sel` that exist in `files`, re-rooted.
CopyInto(src, dst, sel, files) ==
    { Path(<<dst>> \o Tail(p[1]), p[2], p[3]) : p \in (sel \cap files) }

\* installBundlerTwo and the SetBundlerVersion(bundlerTwoVersion) after it.
\* Once InstallDependency has succeeded, `defer os.RemoveAll(installDir)`
\* runs at every return.
installBundlerTwo ==
    /\ pc = "installBundlerTwo"
    /\ LET v == FindMatchingVersion(BundlerTwoMajor, catalog)
           dir == BundlerTwoInstallDir
           installed == depFiles \cup BundlerArchive(dir, v)
           destDir == {Path(<<"bundler", "gems">>, "bundler-%s", v)}
           withGem == installed \cup destDir
                        \cup CopyInto(dir, "bundler", GemDir(dir, v), installed)
           withSpec == withGem
                        \cup CopyInto(dir, "bundler", GemSpec(dir, v), withGem)
           Deferred(files) == files \ Below(dir, files)
       IN IF v = NoVersion
          THEN /\ Fail("InstallBundler")
               /\ UNCHANGED <<calls, depFiles, bundlerVars>>
          ELSE /\ Call(<<"Installer", "bundler2">>)
               /\ \E o \in {"ok", "installErr", "mkdirErr", "copyDirErr", "copyFileErr"} :
                    /\ depFiles' = CASE o = "installErr" -> depFiles
                                     [] o = "mkdirErr" -> Deferred(installed)
                                     [] o = "copyDirErr" -> Deferred(installed \cup destDir)
                                     [] o = "copyFileErr" -> Deferred(withGem)
                                     [] OTHER -> Deferred(withSpec)
                    /\ IF o = "ok"
                       THEN /\ bundlerTwoVersion' = v
                            /\ bundlerVersion' = v
                            /\ Goto("CheckBundler2Compatibility")
                       ELSE /\ Fail("InstallBundler")
                            /\ UNCHANGED <<bundlerTwoVersion, bundlerVersion>>
               /\ UNCHANGED <<bundlerOneVersion, compat>>
    /\ UNCHANGED <<steps, warnings, appVars, sideVars, gemEngine, flagVars, nodeVars,
                   rubyVars, profileD, scratch>>

\* if ok, err := s.Versions.CheckBundler2Compatibility(); err != nil {
\* return err } else if ok { return nil }; otherwise the warning and
\* SetBundlerVersion(bundlerOneVersion) that precede uninstallBundlerTwo.
CheckBundler2Compatibility ==
    /\ pc = "CheckBundler2Compatibility"
    /\ Call(<<"Versions", "CheckBundler2Compatibility">>)
    /\ \E r \in {"true", "false", "err"} :
         /\ compat' = Append(compat, r)
         /\ CASE OnCompatibility(r) = "fail" ->
                   /\ Fail("InstallBundler")
                   /\ UNCHANGED <<warnings, bundlerVersion>>
              [] OnCompatibility(r) = "keep" ->
                   /\ Goto("CreateDefaultEnv")
                   /\ UNCHANGED <<warnings, bundlerVersion>>
              [] OTHER ->
                   /\ warnings' = Append(warnings, CompatibilityWarning)
                   /\ bundlerVersion' = RollbackVersion(bundlerOneVersion, bundlerTwoVersion)
                   /\ Goto("uninstallBundlerTwo")
    /\ UNCHANGED <<steps, appVars, sideVars, gemEngine, flagVars, nodeVars,
                   bundlerOneVersion, bundlerTwoVersion, rubyVars, depFiles,
                   profileD, scratch>>

\* uninstallBundlerTwo: os.RemoveAll of the gem directory, then of the
\* gemspec; InstallBundler returns what it returns.
uninstallBundlerTwo ==
    /\ pc = "uninstallBundlerTwo"
    /\ LET v == FindMatchingVersion(BundlerTwoMajor, catalog)
       IN IF v = NoVersion
          THEN /\ Fail("InstallBundler")
               /\ depFiles' = depFiles
          ELSE \E o \in {"ok", "gemsErr", "specErr"} :
                 /\ depFiles' = CASE o = "gemsErr" -> depFiles
                                  [] o = "specErr" -> depFiles \ GemDir("bundler", v)
                                  [] OTHER -> depFiles \ UninstallTargets(v)
                 /\ IF o = "ok" THEN Goto("CreateDefaultEnv")
                    ELSE Fail("InstallBundler")
    /\ UNCHANGED <<steps, calls, warnings, appVars, sideVars, gemEngine, flagVars,
                   nodeVars, bundlerVars, rubyVars, profileD, scratch>>

\* ------------------------------------------------------ default environment
\* s.CreateDefaultEnv(): writeEnvFiles(environmentDefaults, false).
CreateDefaultEnv ==
    /\ Opaque("CreateDefaultEnv", "EnableLDLibraryPathEnv")
    /\ UNCHANGED <<calls, warnings, appVars, sideVars, gemEngine, flagVars, nodeVars,
                   bundlerVars, rubyVars, depFiles, profileD, scratch>>

\* s.EnableLDLibraryPathEnv()
EnableLDLibraryPathEnv ==
    /\ pc = "EnableLDLibraryPathEnv"
    /\ Enter("EnableLDLibraryPathEnv")
    /\ \E o \in {"statErr", "absent", "writeErr", "ok"} :
         /\ profileD' = IF o = "ok" THEN profileD \cup {"app_lib_path.sh"} ELSE profileD
         /\ IF o \in {"absent", "ok"} THEN Goto("DetermineRuby")
            ELSE Fail("EnableLDLibraryPathEnv")
    /\ UNCHANGED <<calls, warnings, appVars, sideVars, gemEngine, flagVars, nodeVars,
                   bundlerVars, rubyVars, depFiles, scratch>>

\* ------------------------------------------------------------ DetermineRuby
\* The answers of the collaborators DetermineRuby asks; "err" is an error.
EngineAnswers == {"ruby", "jruby", "rbx", "err"}
VersionAnswers == {"", "2.5.5", "err"}
JrubyVersionAnswers == {"", "9.2.7.0", "err"}
\* Manifest.DefaultVersion("ruby"): manifest.yml defaults ruby to 2.6.x, which
\* its catalog resolves to 2.6.3.
DefaultRuby == "2.6.3"
DefaultRubyAnswers == {DefaultRuby, "err"}

DetermineErr(engineRead, versionRead) ==
    [ok |-> FALSE, engine |-> "", version |-> "", warn |-> FALSE,
     engineRead |-> engineRead, versionRead |-> versionRead]
DetermineOk(e, v, warn, engineRead, versionRead) ==
    [ok |-> TRUE, engine |-> e, version |-> v, warn |-> warn,
     engineRead |-> engineRead, versionRead |-> versionRead]

\* Variants of DetermineRuby: one that asks the Gemfile whatever
\* appHasGemfile says, one that defaults the version without a warning, one
\* that treats every engine but jruby as ruby.
DetermineRubyIgnoresFlag(hasGemfile, eng, ver, jver, def) ==
    IF eng = "err" THEN DetermineErr("unread", "unread")
    ELSE IF eng = "ruby"
    THEN IF ver = "err" THEN DetermineErr(eng, "unread")
         ELSE IF ver = ""
         THEN IF def = "err" THEN DetermineErr(eng, ver)
              ELSE DetermineOk(eng, def, TRUE, eng, ver)
         ELSE DetermineOk(eng, ver, FALSE, eng, ver)
    ELSE IF eng = "jruby"
    THEN IF jver = "err" THEN DetermineErr(eng, "unread")
         ELSE DetermineOk(eng, jver, FALSE, eng, jver)
    ELSE DetermineErr(eng, "unread")

DetermineRubySilentDefault(hasGemfile, eng, ver, jver, def) ==
    IF ~hasGemfile
    THEN IF def = "err" THEN DetermineErr("unread", "unread")
         ELSE DetermineOk("ruby", def, FALSE, "unread", "unread")
    ELSE IF eng = "err" THEN DetermineErr("unread", "unread")
    ELSE IF eng = "ruby"
    THEN IF ver = "err" THEN DetermineErr(eng, "unread")
         ELSE IF ver = ""
         THEN IF def = "err" THEN DetermineErr(eng, ver)
              ELSE DetermineOk(eng, def, FALSE, eng, ver)
         ELSE DetermineOk(eng, ver, FALSE, eng, ver)
    ELSE IF eng = "jruby"
    THEN IF jver = "err" THEN DetermineErr(eng, "unread")
         ELSE DetermineOk(eng, jver, FALSE, eng, jver)
    ELSE DetermineErr(eng, "unread")

DetermineRubyAnyEngine(hasGemfile, eng, ver, jver, def) ==
    IF ~hasGemfile
    THEN IF def = "err" THEN DetermineErr("unread", "unread")
         ELSE DetermineOk("ruby", def, FALSE, "unread", "unread")
    ELSE IF eng = "err" THEN DetermineErr("unread", "unread")
    ELSE IF eng = "jruby"
    THEN IF jver = "err" THEN DetermineErr(eng, "unread")
         ELSE DetermineOk(eng, jver, FALSE, eng, jver)
    ELSE IF ver = "err" THEN DetermineErr(eng, "unread")
         ELSE IF ver = ""
         THEN IF def = "err" THEN DetermineErr(eng, ver)
              ELSE DetermineOk(eng, def, TRUE, eng, ver)
         ELSE DetermineOk(eng, ver, FALSE, eng, ver)

\* Supplier.DetermineRuby as a function of s.appHasGemfile and of the answers
\* of Versions.Engine() (eng), Versions.Version() (ver),
\* Versions.JrubyVersion() (jver) and Manifest.DefaultVersion("ruby") (def).
\* engineRead/versionRead are the answers it actually asked for.
DetermineRubyResult(hasGemfile, eng, ver, jver, def) ==
    IF ~hasGemfile
    THEN IF def = "err" THEN DetermineErr("unread", "unread")
         ELSE DetermineOk("ruby", def, FALSE, "unread", "unread")
    ELSE IF eng = "err" THEN DetermineErr("unread", "unread")
    ELSE IF eng = "ruby"
    THEN IF ver = "err" THEN DetermineErr(eng, "unread")
         ELSE IF ver = ""
         THEN IF def = "err" THEN DetermineErr(eng, ver)
              ELSE DetermineOk(eng, def, TRUE, eng, ver)
         ELSE DetermineOk(eng, ver, FALSE, eng, ver)
    ELSE IF eng = "jruby"
    THEN IF jver = "err" THEN DetermineErr(eng, "unread")
         ELSE DetermineOk(eng, jver, FALSE, eng, jver)
    ELSE DetermineErr(eng, "unread")

NoRubyVersionWarning == "You have not declared a Ruby version in your Gemfile."

\* Run with InstallJVM called whatever the engine.
AfterDetermineRubyAlwaysJVM(eng) == "InstallJVM"

\* `if engine == "jruby" { s.InstallJVM() }` of Run: the step that follows
\* DetermineRuby.
AfterDetermineRuby(eng) == IF eng = "jruby" THEN "InstallJVM" ELSE "InstallRuby"

\* engine, rubyVersion, err := s.DetermineRuby(), and the
\* `if engine == "jruby"` of Run that selects the next step.
DetermineRuby ==
    /\ pc = "DetermineRuby"
    /\ Enter("DetermineRuby")
    /\ \E eng \in EngineAnswers, ver \in VersionAnswers,
          jver \in JrubyVersionAnswers, def \in DefaultRubyAnswers :
         LET r == DetermineRubyResult(appHasGemfile, eng, ver, jver, def)
         IN /\ gemEngine' = r.engineRead
            /\ gemVersion' = r.versionRead
            /\ engine' = r.engine
            /\ rubyVersion' = r.version
            /\ warnings' = IF r.warn THEN Append(warnings, NoRubyVersionWarning)
                           ELSE warnings
            /\ IF r.ok
               THEN Goto(AfterDetermineRuby(r.engine))
               ELSE Fail("DetermineRuby")
    /\ UNCHANGED <<calls, appVars, sideVars, flagVars, nodeVars, bundlerVars, depFiles,
                   profileD, scratch>>

\* --------------------------------------------------------- runtime installs
\* s.InstallJVM(), called by Run only for engine "jruby".
InstallJVM ==
    /\ pc = "InstallJVM"
    /\ Enter("InstallJVM")
    /\ \E o \in {"statErr", "preinstalled", "installErr", "linkErr", "profileErr", "ok"} :
         LET jvm == {Path(<<"jvm", "bin">>, "java", NoVersion)}
         IN /\ calls' = IF o \in {"statErr", "preinstalled"} THEN calls
                        ELSE Append(calls, <<"Installer", "openjdk1.8-latest">>)
            /\ depFiles' = CASE o \in {"statErr", "preinstalled", "installErr"} -> depFiles
                             [] o = "linkErr" -> depFiles \cup jvm
                             [] OTHER -> depFiles \cup jvm \cup BinLinks("jvm", jvm)
            /\ profileD' = IF o = "ok" THEN profileD \cup {"jruby.sh"} ELSE profileD
            /\ IF o \in {"preinstalled", "ok"} THEN Goto("InstallRuby")
               ELSE Fail("InstallJVM")
    /\ UNCHANGED <<warnings, appVars, sideVars, gemEngine, flagVars, nodeVars,
                   bundlerVars, rubyVars, scratch>>

\* s.InstallRuby(engine, rubyVersion): InstallDependency, RewriteShebangs,
\* the ruby.exe symlink, LinkDirectoryInDepDir.
InstallRuby ==
    /\ pc = "InstallRuby"
    /\ Enter("InstallRuby")
    /\ Call(<<"Installer", engine>>)
    /\ \E o \in {"installErr", "shebangErr", "symlinkErr", "linkErr", "ok"} :
         LET ruby == {Path(<<"ruby", "bin">>, "ruby", NoVersion),
                      Path(<<"ruby", "bin">>, "gem", NoVersion)}
             exe == {Path(<<"ruby", "bin">>, "ruby.exe", NoVersion)}
         IN /\ depFiles' = CASE o = "installErr" -> depFiles
                             [] o \in {"shebangErr", "symlinkErr"} -> depFiles \cup ruby
                             [] o = "linkErr" -> depFiles \cup ruby \cup exe
                             [] OTHER -> depFiles \cup ruby \cup exe
                                           \cup BinLinks("ruby", ruby \cup exe)
            /\ IF o = "ok" THEN Goto("AddPostRubyInstallDefaultEnv")
               ELSE Fail("InstallRuby")
    /\ UNCHANGED <<warnings, appVars, sideVars, gemEngine, flagVars, nodeVars,
                   bundlerVars, rubyVars, profileD, scratch>>

\* s.AddPostRubyInstallDefaultEnv(engine): RubyEngineVersion, then
\* writeEnvFiles(environmentDefaults, true).
AddPostRubyInstallDefaultEnv ==
    /\ Opaque("AddPostRubyInstallDefaultEnv", "UpdateRubygems")
    /\ UNCHANGED <<calls, warnings, appVars, sideVars, gemEngine, flagVars, nodeVars,
                   bundlerVars, rubyVars, depFiles, profileD, scratch>>

\* s.UpdateRubygems()
UpdateRubygems ==
    /\ pc = "UpdateRubygems"
    /\ Enter("UpdateRubygems")
    /\ \E o \in {"noVersion", "manyVersions", "gemVersionErr", "constraintErr",
                 "newer", "engineErr", "jruby", "tempErr", "installErr",
                 "mkdirErr", "setupErr", "ok"} :
         /\ o = "jruby" => gemEngine \in {"unread", "jruby"}
         /\ o \in {"tempErr", "installErr", "mkdirErr", "setupErr", "ok"}
              => gemEngine # "jruby"
         /\ calls' = CASE o \in {"installErr", "mkdirErr"} ->
                            Append(calls, <<"Installer", "rubygems">>)
                       [] o \in {"setupErr", "ok"} ->
                            calls \o << <<"Installer", "rubygems">>,
                                        <<"Command", "ruby setup.rb">> >>
                       [] OTHER -> calls
         /\ depFiles' = IF o \in {"setupErr", "ok"}
                        THEN depFiles \cup {Path(<<"gem_home">>, "", NoVersion)}
                        ELSE depFiles
         /\ IF o \in {"noVersion", "newer", "jruby", "ok"} THEN Goto("NeedsNode")
            ELSE Fail("UpdateRubygems")
    /\ UNCHANGED <<warnings, appVars, sideVars, gemEngine, flagVars, nodeVars,
                   bundlerVars, rubyVars, profileD, scratch>>

\* The gem names NeedsNode looks for in the Gemfile, in the order of its loop,
\* and what Versions.HasGemVersion can answer for one of them.
NodeGems == <<"webpacker", "execjs">>
GemAnswerValues == {"yes", "no", "err"}

\* The positions of the loop of NeedsNode at which `err == nil && hasgem`
\* holds, and the queries the loop makes: it stops at the first such
\* position (break).
GemHits(ans) == {i \in 1..Len(NodeGems) : ans[NodeGems[i]] = "yes"}
GemQueries(ans) ==
    IF GemHits(ans) = {} THEN NodeGems
    ELSE SubSeq(NodeGems, 1, CHOOSE i \in GemHits(ans) : \A j \in GemHits(ans) : i <= j)

\* NeedsNode without `s.cachedNeedsNode = true`.
NeedsNodeUncached(cached, needs, onPath, ans) ==
    [cachedNeedsNode |-> FALSE,
     needsNode |-> ~onPath /\ GemHits(ans) # {},
     probes |-> << <<"Command", "node --version">> >>
                \o (IF onPath THEN <<>>
                    ELSE [i \in 1..Len(GemQueries(ans)) |-> <<"Versions", GemQueries(ans)[i]>>])]

\* s.NeedsNode() on a Supplier with the fields `cached` and `needs`, where
\* `node --version` succeeds iff onPath and HasGemVersion answers ans: the
\* fields afterwards (needsNode is also the value returned) and the probes
\* executed by the call.
NeedsNodeResult(cached, needs, onPath, ans) ==
    IF cached
    THEN [cachedNeedsNode |-> TRUE, needsNode |-> needs, probes |-> <<>>]
    ELSE [cachedNeedsNode |-> TRUE,
          needsNode |-> ~onPath /\ GemHits(ans) # {},
          probes |-> << <<"Command", "node --version">> >>
                     \o (IF onPath THEN <<>>
                         ELSE [i \in 1..Len(GemQueries(ans)) |->
                                 <<"Versions", GemQueries(ans)[i]>>])]

\* if s.NeedsNode() { ... }: the memoised probe, and the branch of Run on it.
NeedsNode ==
    /\ pc = "NeedsNode"
    /\ Enter("NeedsNode")
    /\ \E onPath \in BOOLEAN, ans \in [Range(NodeGems) -> GemAnswerValues] :
         LET r == NeedsNodeResult(cachedNeedsNode, needsNode, onPath, ans)
         IN /\ cachedNeedsNode' = r.cachedNeedsNode
            /\ needsNode' = r.needsNode
            /\ calls' = IF r.probes = <<>> THEN calls ELSE Append(calls, r.probes[1])
            /\ Goto(IF r.needsNode THEN "InstallNode" ELSE "InstallGems")
    /\ UNCHANGED <<warnings, appVars, sideVars, gemEngine, flagVars, bundlerVars,
                   rubyVars, depFiles, profileD, scratch>>

\* What a call of InstallNode and of InstallYarn can come to.
InstallNodeOutcomes == {"tempErr", "findErr", "installErr", "renameErr", "linkErr", "ok"}
InstallYarnOutcomes == {"statErr", "noYarnLock", "tempErr", "installErr", "globErr",
                        "renameErr", "linkErr", "ok"}

\* s.InstallNode()
InstallNode ==
    /\ pc = "InstallNode"
    /\ Enter("InstallNode")
    /\ \E o \in InstallNodeOutcomes :
         LET node == {Path(<<"node", "bin">>, "node", NoVersion)}
         IN /\ calls' = IF o \in {"tempErr", "findErr"} THEN calls
                        ELSE Append(calls, <<"Installer", "node">>)
            /\ depFiles' = CASE o \in {"tempErr", "findErr", "installErr", "renameErr"} -> depFiles
                             [] o = "linkErr" -> depFiles \cup node
                             [] OTHER -> depFiles \cup node \cup BinLinks("node", node)
            /\ IF o = "ok" THEN Goto("InstallYarn") ELSE Fail("InstallNode")
    /\ UNCHANGED <<warnings, appVars, sideVars, gemEngine, flagVars, nodeVars,
                   bundlerVars, rubyVars, profileD, scratch>>

\* s.InstallYarn()
InstallYarn ==
    /\ pc = "InstallYarn"
    /\ Enter("InstallYarn")
    /\ \E o \in InstallYarnOutcomes :
         LET yarn == {Path(<<"yarn", "bin">>, "yarn", NoVersion)}
         IN /\ calls' = IF o \in {"statErr", "noYarnLock", "tempErr"} THEN calls
                        ELSE Append(calls, <<"Installer", "yarn">>)
            /\ depFiles' = CASE o = "linkErr" -> depFiles \cup yarn
                             [] o = "ok" -> depFiles \cup yarn \cup BinLinks("yarn", yarn)
                             [] OTHER -> depFiles
            /\ IF o \in {"noYarnLock", "ok"} THEN Goto("InstallGems")
               ELSE Fail("InstallYarn")
    /\ UNCHANGED <<warnings, appVars, sideVars, gemEngine, flagVars, nodeVars,
                   bundlerVars, rubyVars, profileD, scratch>>

\* -------------------------------------------------------------- InstallGems
BundleConfigWarning == "You have the .bundle/config file checked into your repository"
WindowsGemfileWarning == "Windows line endings detected in Gemfile."
WindowsLockWarning == "Removing Gemfile.lock because it was generated on Windows."

\* Where InstallGems goes when CopyDirToTemp or filepath.Rel fails: both
\* branches `return nil`, so Run goes on with the step after InstallGems.
AfterCopyFailure == "RewriteShebangs"

\* The start of InstallGems: the Gemfile guard, warnBundleConfig,
\* warnWindowsGemfile, TempDir.CopyDirToTemp (ioutil.TempDir, then cp -al)
\* and filepath.Rel.  `cfg`: the build directory holds .bundle/config;
\* `crlf`: the Gemfile has Windows line endings.
InstallGemsCopy ==
    /\ pc = "InstallGems"
    /\ Enter("InstallGems")
    /\ IF ~appHasGemfile
       THEN /\ Goto("RewriteShebangs")
            /\ UNCHANGED <<calls, warnings, scratch>>
       ELSE \E cfg \in BOOLEAN, crlf \in BOOLEAN,
               o \in {"tempDirErr", "cpErr", "relErr", "ok"} :
              /\ warnings' = warnings
                   \o (IF cfg THEN <<BundleConfigWarning>> ELSE <<>>)
                   \o (IF crlf THEN <<WindowsGemfileWarning>> ELSE <<>>)
              /\ Call(<<"TempDir", "CopyDirToTemp">>)
              /\ scratch' =
                   CASE o = "tempDirErr" -> NoScratch
                     [] o = "cpErr" -> [NoScratch EXCEPT !.outer = TRUE]
                     [] OTHER -> [outer |-> TRUE, copy |-> TRUE,
                                  lock |-> gemfileLockExists,
                                  config |-> IF cfg THEN "checkedin" ELSE "none"]
              /\ Goto(IF o = "ok" THEN "InstallGemsWindowsLock" ELSE AfterCopyFailure)
    /\ UNCHANGED <<appVars, sideVars, gemEngine, flagVars, nodeVars, bundlerVars,
                   rubyVars, depFiles, profileD>>

\* HasWindowsGemfileLock and the os.Remove of the scratch copy's Gemfile.lock.
InstallGemsWindowsLock ==
    /\ pc = "InstallGemsWindowsLock"
    /\ \E o \in {"checkErr", "notWindows", "removeErr", "removed"} :
         /\ o \in {"removeErr", "removed"} => gemfileLockExists
         /\ o = "removed" => scratch.lock
         /\ warnings' = IF o \in {"removeErr", "removed"}
                        THEN Append(warnings, WindowsLockWarning) ELSE warnings
         /\ scratch' = IF o = "removed" THEN [scratch EXCEPT !.lock = FALSE] ELSE scratch
         /\ IF o \in {"notWindows", "removed"} THEN Goto("InstallGemsBundleConfig")
            ELSE Fail("InstallGems")
    /\ UNCHANGED <<steps, calls, appVars, sideVars, gemEngine, flagVars, nodeVars,
                   bundlerVars, rubyVars, depFiles, profileD>>

\* "Remove .bundle/config && copy if exists": os.Remove of the scratch copy's
\* file and CopyFile of the build directory's file over it, both errors
\* dropped.
InstallGemsBundleConfig ==
    /\ pc = "InstallGemsBundleConfig"
    /\ \E o \in {"statErr", "absent", "copied", "removedOnly"} :
         /\ o = "absent" <=> (scratch.config = "none" /\ o # "statErr")
         /\ scratch' = IF o = "removedOnly" THEN [scratch EXCEPT !.config = "none"]
                       ELSE scratch
         /\ IF o = "statErr" THEN Fail("InstallGems")
            ELSE Goto("InstallGemsBundleInstall")
    /\ UNCHANGED <<steps, calls, warnings, appVars, sideVars, gemEngine, flagVars,
                   nodeVars, bundlerVars, rubyVars, depFiles, profileD>>

\* FileExists(gemfileLock) deciding --deployment, then `bundle install` in
\* the scratch copy.  A successful install leaves a Gemfile.lock, gems and
\* binstubs, and may write .bundle/config (`gen`).
InstallGemsBundleInstall ==
    /\ pc = "InstallGemsBundleInstall"
    /\ \E o \in {"statErr", "runErr", "ok"}, gen \in BOOLEAN :
         /\ o # "ok" => ~gen
         /\ calls' = IF o = "statErr" THEN calls
                     ELSE Append(calls, <<"bundle", IF scratch.lock
                                                    THEN "install --deployment"
                                                    ELSE "install">>)
         /\ scratch' = IF o = "ok"
                       THEN [scratch EXCEPT !.lock = TRUE,
                                            !.config = IF gen THEN "generated" ELSE @]
                       ELSE scratch
         /\ depFiles' = IF o = "ok"
                        THEN depFiles \cup {Path(<<"vendor_bundle">>, "", NoVersion),
                                            Path(<<"binstubs">>, "rake", NoVersion),
                                            Path(<<"binstubs">>, "bundle", NoVersion)}
                        ELSE depFiles
         /\ IF o = "ok" THEN Goto("regenerateBundlerBinStub") ELSE Fail("InstallGems")
    /\ UNCHANGED <<steps, warnings, appVars, sideVars, gemEngine, flagVars, nodeVars,
                   bundlerVars, rubyVars, profileD>>

\* regenerateBundlerBinStub: `bundle binstubs bundler --force`, then CopyFile
\* of binstubs/bundle over bin/bundle.
regenerateBundlerBinStub ==
    /\ pc = "regenerateBundlerBinStub"
    /\ Call(<<"bundle", "binstubs">>)
    /\ \E o \in {"runErr", "copyErr", "ok"} :
         /\ depFiles' = IF o = "ok"
                        THEN {p \in depFiles : ~(p[1] = <<"bin">> /\ p[2] = "bundle")}
                               \cup {Path(<<"bin">>, "bundle", NoVersion)}
                        ELSE depFiles
         /\ IF o = "ok" THEN Goto("InstallGemsClean") ELSE Fail("InstallGems")
    /\ UNCHANGED <<steps, warnings, appVars, sideVars, gemEngine, flagVars, nodeVars,
                   bundlerVars, rubyVars, profileD, scratch>>

\* `bundle clean` in the scratch copy.
InstallGemsClean ==
    /\ pc = "InstallGemsClean"
    /\ Call(<<"bundle", "clean">>)
    /\ \E ok \in BOOLEAN :
         IF ok THEN Goto("InstallGemsCopyBinstubs") ELSE Fail("InstallGems")
    /\ UNCHANGED <<steps, warnings, appVars, sideVars, gemEngine, flagVars, nodeVars,
                   bundlerVars, rubyVars, depFiles, profileD, scratch>>

\* "Copy binstubs to bin": every entry of DepDir/binstubs that has no
\* namesake in DepDir/bin is copied there.
InstallGemsCopyBinstubs ==
    /\ pc = "InstallGemsCopyBinstubs"
    /\ \E o \in {"readDirErr", "existsErr", "copyErr", "ok"} :
         LET stubs == {p \in depFiles : p[1] = <<"binstubs">>}
             fresh == {p \in stubs :
                         ~\E q \in depFiles : q[1] = <<"bin">> /\ q[2] = p[2]}
         IN /\ o = "copyErr" => fresh # {}
            /\ depFiles' = IF o = "ok"
                           THEN depFiles \cup {Path(<<"bin">>, p[2], p[3]) : p \in fresh}
                           ELSE depFiles
            /\ IF o = "ok" THEN Goto("InstallGemsSaveConfig") ELSE Fail("InstallGems")
    /\ UNCHANGED <<steps, calls, warnings, appVars, sideVars, gemEngine, flagVars,
                   nodeVars, bundlerVars, rubyVars, profileD, scratch>>

\* "Save .bundle/config to global config": os.Rename of the scratch copy's
\* .bundle/config to $BUNDLE_CONFIG when FileExists answers (true, nil).
InstallGemsSaveConfig ==
    /\ pc = "InstallGemsSaveConfig"
    /\ \E o \in {"skipped", "renameErr", "renamed"} :
         /\ o \in {"renameErr", "renamed"} => scratch.config # "none"
         /\ scratch' = IF o = "renamed" THEN [scratch EXCEPT !.config = "none"]
                       ELSE scratch
         /\ depFiles' = IF o = "renamed"
                        THEN depFiles \cup {Path(<<"bundle_config">>, "", NoVersion)}
                        ELSE depFiles
         /\ IF o = "renameErr" THEN Fail("InstallGems")
            ELSE Goto("InstallGemsSaveLock")
    /\ UNCHANGED <<steps, calls, warnings, appVars, sideVars, gemEngine, flagVars,
                   nodeVars, bundlerVars, rubyVars, profileD>>

\* "Save Gemfile.lock for finalize": CopyFile of the scratch copy's
\* Gemfile.lock to DepDir/Gemfile.lock when FileExists answers (true, nil).
InstallGemsSaveLock ==
    /\ pc = "InstallGemsSaveLock"
    /\ \E o \in {"skipped", "copyErr", "copied"} :
         /\ o \in {"copyErr", "copied"} => scratch.lock
         /\ depFiles' = IF o = "copied"
                        THEN depFiles \cup {Path(<<"Gemfile.lock">>, "", NoVersion)}
                        ELSE depFiles
         /\ IF o = "copyErr" THEN Fail("InstallGems")
            ELSE Goto("InstallGemsRemoveAll")
    /\ UNCHANGED <<steps, calls, warnings, appVars, sideVars, gemEngine, flagVars,
                   nodeVars, bundlerVars, rubyVars, profileD, scratch>>

\* return os.RemoveAll(tempDir): the only place the scratch copy is removed.
InstallGemsRemoveAll ==
    /\ pc = "InstallGemsRemoveAll"
    /\ \E ok \in BOOLEAN :
         IF ok
         THEN /\ scratch' = [NoScratch EXCEPT !.outer = TRUE]
              /\ Goto("RewriteShebangs")
         ELSE /\ scratch' = scratch
              /\ Fail("InstallGems")
    /\ UNCHANGED <<steps, calls, warnings, appVars, sideVars, gemEngine, flagVars,
                   nodeVars, bundlerVars, rubyVars, depFiles, profileD>>

\* ------------------------------------------------------------ the end of Run
\* s.RewriteShebangs(), the call of Run after InstallGems.
RewriteShebangs ==
    /\ Opaque("RewriteShebangs", "SymlinkBundlerIntoRubygems")
    /\ UNCHANGED <<calls, warnings, appVars, sideVars, gemEngine, flagVars, nodeVars,
                   bundlerVars, rubyVars, depFiles, profileD, scratch>>

\* s.SymlinkBundlerIntoRubygems(): links bundler-<GetBundlerVersion()> into
\* the runtime's gems directory unless the destination exists.
SymlinkBundlerIntoRubygems ==
    /\ pc = "SymlinkBundlerIntoRubygems"
    /\ Enter("SymlinkBundlerIntoRubygems")
    /\ \E o \in {"engineVersionErr", "mkdirErr", "statErr", "symlinkErr", "ok"} :
         LET link == Path(<<"ruby", "lib", "ruby", "gems">>, "bundler-%s", bundlerVersion)
         IN /\ depFiles' = IF o = "ok" THEN depFiles \cup {link} ELSE depFiles
            /\ IF o = "ok" THEN Goto("WriteProfileD")
               ELSE Fail("SymlinkBundlerIntoRubygems")
    /\ UNCHANGED <<calls, warnings, appVars, sideVars, gemEngine, flagVars, nodeVars,
                   bundlerVars, rubyVars, profileD, scratch>>

\* s.WriteProfileD(engine): ruby.sh, with `rake secret` when a Gemfile and a
\* lock file are present.
WriteProfileD ==
    /\ pc = "WriteProfileD"
    /\ Enter("WriteProfileD")
    /\ \E o \in {"engineVersionErr", "railsErr", "rakeErr", "writeErr", "ok"} :
         /\ o \in {"railsErr", "rakeErr"} => (appHasGemfile /\ appHasGemfileLock)
         /\ calls' = IF o = "rakeErr" THEN Append(calls, <<"Command", "rake secret">>)
                     ELSE calls
         /\ profileD' = IF o = "ok" THEN profileD \cup {"ruby.sh"} ELSE profileD
         /\ IF o = "ok" THEN Goto("CacheSave") ELSE Fail("WriteProfileD")
    /\ UNCHANGED <<warnings, appVars, sideVars, gemEngine, flagVars, nodeVars,
                   bundlerVars, rubyVars, depFiles, scratch>>

\* s.Cache.Save()
CacheSave ==
    /\ Opaque("CacheSave", "SetStagingEnvironment")
    /\ Call(<<"Cache", "Save">>)
    /\ UNCHANGED <<warnings, appVars, sideVars, gemEngine, flagVars, nodeVars,
                   bundlerVars, rubyVars, depFiles, profileD, scratch>>

\* s.Stager.SetStagingEnvironment()
SetStagingEnvironment ==
    /\ Opaque("SetStagingEnvironment", "CalcChecksumAfter")
    /\ Call(<<"Stager", "SetStagingEnvironment">>)
    /\ UNCHANGED <<warnings, appVars, sideVars, gemEngine, flagVars, nodeVars,
                   bundlerVars, rubyVars, depFiles, profileD, scratch>>

\* The second CalcChecksum: diagnostic only, its error is dropped.
CalcChecksumAfter ==
    /\ pc = "CalcChecksumAfter"
    /\ Enter("CalcChecksumAfter")
    /\ \E ok \in BOOLEAN : Ignore("CalcChecksumAfter", ok, "FindChanged")
    /\ UNCHANGED <<calls, warnings, appVars, sideVars, gemEngine, flagVars, nodeVars,
                   bundlerVars, rubyVars, depFiles, profileD, scratch>>

\* `find . -newer /tmp/checkpoint ...` (its error is dropped) and `return nil`.
FindChanged ==
    /\ pc = "FindChanged"
    /\ Enter("FindChanged")
    /\ \E ok \in BOOLEAN :
         /\ pc' = "done"
         /\ result' = "ok"
         /\ stepErr' = IF ok THEN "" ELSE "FindChanged"
    /\ UNCHANGED <<calls, warnings, appVars, sideVars, gemEngine, flagVars, nodeVars,
                   bundlerVars, rubyVars, depFiles, profileD, scratch>>

\* ------------------------------------------------------------ specification
Next ==
    \/ DefaultVersionFreetds
    \/ InstallFreetds
    \/ WriteProfileDFreetds
    \/ Touch
    \/ CalcChecksumBefore
    \/ Setup
    \/ CacheRestore
    \/ installBundlerOne
    \/ installBundlerTwo
    \/ CheckBundler2Compatibility
    \/ uninstallBundlerTwo
    \/ CreateDefaultEnv
    \/ EnableLDLibraryPathEnv
    \/ DetermineRuby
    \/ InstallJVM
    \/ InstallRuby
    \/ AddPostRubyInstallDefaultEnv
    \/ UpdateRubygems
    \/ NeedsNode
    \/ InstallNode
    \/ InstallYarn
    \/ InstallGemsCopy
    \/ InstallGemsWindowsLock
    \/ InstallGemsBundleConfig
    \/ InstallGemsBundleInstall
    \/ regenerateBundlerBinStub
    \/ InstallGemsClean
    \/ InstallGemsCopyBinstubs
    \/ InstallGemsSaveConfig
    \/ InstallGemsSaveLock
    \/ InstallGemsRemoveAll
    \/ RewriteShebangs
    \/ SymlinkBundlerIntoRubygems
    \/ WriteProfileD
    \/ CacheSave
    \/ SetStagingEnvironment
    \/ CalcChecksumAfter
    \/ FindChanged

Spec == Init /\ [][Next]_vars

\* ------------------------------------------- NeedsNode and the node block
\* The component specification NodeSpec: the block `if s.NeedsNode() { ... }`
\* of Run on a Supplier fresh from construction, in a staging directory
\* where `node --version` succeeds iff nodeOnPath, the Gemfile answers
\* gemAnswers and stat of yarn.lock answers yarnLock; NeedsNode is a public
\* method, and other callers call it at any moment, MaxNeedsNodeCalls times
\* in all.
MaxNeedsNodeCalls == 3

YarnLockAnswers == {"present", "absent", "statErr"}

NodeInit ==
    /\ RunIdle
    /\ EnvIdle
    /\ SumIdle
    /\ MoreIdle
    /\ cachedNeedsNode = FALSE
    /\ needsNode = FALSE
    /\ nodeOnPath \in BOOLEAN
    /\ gemAnswers \in [Range(NodeGems) -> GemAnswerValues]
    /\ yarnLock \in YarnLockAnswers
    /\ probes = <<>>
    /\ answers = <<>>
    /\ installs = <<>>
    /\ npc = "NeedsNode"

\* The calls of InstallNode / InstallYarn so far that came to outcome o.
Installed(what, outcomes) ==
    \E i \in 1..Len(installs) : installs[i][1] = what /\ installs[i][2] \in outcomes

\* The outcomes after which the dependency lies in the dependency area
\* (os.Rename has succeeded).
InDepDir == {"linkErr", "ok"}

\* One call of s.NeedsNode().  Once this run has put node into the
\* dependency area and linked it into bin/, `node --version` may succeed.
CallNeedsNode ==
    \E onPath \in {nodeOnPath, nodeOnPath \/ Installed("node", {"ok"})} :
      LET r == NeedsNodeResult(cachedNeedsNode, needsNode, onPath, gemAnswers)
      IN /\ cachedNeedsNode' = r.cachedNeedsNode
         /\ needsNode' = r.needsNode
         /\ probes' = probes \o r.probes
         /\ answers' = Append(answers, r.needsNode)

\* if s.NeedsNode() { of Run.
RunNeedsNode ==
    /\ npc = "NeedsNode"
    /\ CallNeedsNode
    /\ npc' = IF needsNode' THEN "InstallNode" ELSE "InstallGems"
    /\ UNCHANGED <<runVars, moreVars, nodeOnPath, gemAnswers, yarnLock, installs, envVars, sumVars>>

\* s.NeedsNode() called by another caller (the bound keeps one call for Run).
OtherNeedsNode ==
    /\ Len(answers) < MaxNeedsNodeCalls
    /\ npc = "NeedsNode" => Len(answers) + 1 < MaxNeedsNodeCalls
    /\ CallNeedsNode
    /\ UNCHANGED <<runVars, moreVars, nodeOnPath, gemAnswers, yarnLock, installs, npc, envVars, sumVars>>

\* if err := s.InstallNode(); err != nil { return err }
RunInstallNode ==
    /\ npc = "InstallNode"
    /\ \E o \in InstallNodeOutcomes :
         /\ installs' = Append(installs, <<"node", o>>)
         /\ npc' = IF o = "ok" THEN "InstallYarn" ELSE "error"
    /\ UNCHANGED <<runVars, moreVars, nodeVars, nodeOnPath, gemAnswers, yarnLock, probes, answers,
                   envVars, sumVars>>

\* InstallYarn with `if !exists { return nil }` left out.
YarnOutcomesNoLockCheck(lock) ==
    IF lock = "statErr" THEN {"statErr"}
    ELSE InstallYarnOutcomes \ {"statErr", "noYarnLock"}

\* What InstallYarn can come to when FileExists(BuildDir/yarn.lock) answers
\* lock: the error of stat, nil without an install when the file is absent,
\* the install otherwise.
YarnOutcomes(lock) ==
    CASE lock = "statErr" -> {"statErr"}
      [] lock = "absent" -> {"noYarnLock"}
      [] OTHER -> InstallYarnOutcomes \ {"statErr", "noYarnLock"}

\* if err := s.InstallYarn(); err != nil { return err }
RunInstallYarn ==
    /\ npc = "InstallYarn"
    /\ \E o \in YarnOutcomes(yarnLock) :
         /\ installs' = Append(installs, <<"yarn", o>>)
         /\ npc' = IF o \in {"noYarnLock", "ok"} THEN "InstallGems" ELSE "error"
    /\ UNCHANGED <<runVars, moreVars, nodeVars, nodeOnPath, gemAnswers, yarnLock, probes, answers,
                   envVars, sumVars>>

NodeNext ==
    \/ RunNeedsNode
    \/ OtherNeedsNode
    \/ RunInstallNode
    \/ RunInstallYarn

NodeSpec == NodeInit /\ [][NodeNext]_vars

\* ----------------------------------------------------------- writeEnvFiles
\* The component specification EnvSpec: writeEnvFiles applied, up to
\* MaxApplications times in a row, with the same arguments to a process
\* environment and a directory of environment files.
MaxApplications == 2

\* Variable names os.Setenv accepts, and one it rejects with EINVAL (a name
\* holding "="); the values variables have before the first application,
\* the contents of the files there are before it, and the values of defaults.
EnvNames == {"RAILS_ENV", "GEM_PATH"}
InvalidName == "BAD=NAME"
EnvValues == {"", "custom"}
FileValues == {"custom"}
DefaultValues == {"", "production"}

\* The mappings from some of `names` to `values`.
Maps(names, values) == UNION {[d -> values] : d \in SUBSET names}

\* The orders in which `range` can yield the keys of a map.
Orders(keys) ==
    {q \in [1..Cardinality(keys) -> keys] : \A k \in keys : \E i \in DOMAIN q : q[i] = k}

\* os.Getenv: "" for a variable that is not set.
Getenv(e, name) == IF name \in DOMAIN e THEN e[name] ELSE ""

\* os.Setenv, whose error writeEnvFiles drops.
SetenvAccepts(name) == name \in EnvNames
Setenv(e, name, value) ==
    IF SetenvAccepts(name)
    THEN [n \in DOMAIN e \cup {name} |-> IF n = name THEN value ELSE e[n]]
    ELSE e

\* s.Stager.WriteEnvFile(name, value), when it succeeds.
WriteEnvFile(f, name, value) ==
    [n \in DOMAIN f \cup {name} |-> IF n = name THEN value ELSE f[n]]

\* What writeEnvFiles leaves: the environment, the files, whether it
\* returned an error, the variables os.Setenv has set and the files
\* WriteEnvFile has written.
EnvResult(e, f, err, set, written) ==
    [env |-> e, files |-> f, err |-> err, set |-> set, written |-> written]

\* writeEnvFiles with `return nil` inside the `if` of the loop: it returns
\* after the first entry it has applied.
RECURSIVE WriteEnvFilesReturnsEarly(_, _, _, _, _)
WriteEnvFilesReturnsEarly(st, environment, clob, order, failing) ==
    IF order = <<>> THEN st
    ELSE LET name == Head(order)
             value == environment[name]
             set == IF SetenvAccepts(name) THEN st.set \cup {name} ELSE st.set
         IN IF Getenv(st.env, name) = "" \/ clob
            THEN IF name \in failing
                 THEN EnvResult(Setenv(st.env, name, value), st.files, TRUE, set, st.written)
                 ELSE EnvResult(Setenv(st.env, name, value),
                                WriteEnvFile(st.files, name, value), FALSE, set,
                                st.written \cup {name})
            ELSE WriteEnvFilesReturnsEarly(st, environment, clob, Tail(order), failing)

\* The loop of writeEnvFiles(environment, clob) from the state st, over the
\* keys in the order `order` in which range yields them, WriteEnvFile
\* failing for the names in `failing` (the loop ends at the first of them
\* it comes to, so one name at most makes every case).
RECURSIVE WriteEnvFilesFrom(_, _, _, _, _)
WriteEnvFilesFrom(st, environment, clob, order, failing) ==
    IF order = <<>> THEN st
    ELSE LET name == Head(order)
             value == environment[name]
             set == IF SetenvAccepts(name) THEN st.set \cup {name} ELSE st.set
         IN IF Getenv(st.env, name) = "" \/ clob
            THEN IF name \in failing
                 THEN EnvResult(Setenv(st.env, name, value), st.files, TRUE, set, st.written)
                 ELSE WriteEnvFilesFrom(
                          EnvResult(Setenv(st.env, name, value),
                                    WriteEnvFile(st.files, name, value), FALSE, set,
                                    st.written \cup {name}),
                          environment, clob, Tail(order), failing)
            ELSE WriteEnvFilesFrom(st, environment, clob, Tail(order), failing)

EnvInit ==
    /\ RunIdle
    /\ ProbeIdle
    /\ SumIdle
    /\ MoreIdle
    /\ cachedNeedsNode = FALSE
    /\ needsNode = FALSE
    /\ env \in Maps(EnvNames, EnvValues)
    /\ envFiles \in Maps({"RAILS_ENV"}, FileValues)
    /\ defaults \in Maps(EnvNames \cup {InvalidName}, DefaultValues)
    /\ clobber \in BOOLEAN
    /\ envLog = << EnvResult(env, envFiles, FALSE, {}, {}) >>

\* s.writeEnvFiles(defaults, clobber)
writeEnvFiles ==
    /\ Len(envLog) <= MaxApplications
    /\ \E order \in Orders(DOMAIN defaults),
          failing \in {{}} \cup {{name} : name \in DOMAIN defaults} :
         LET r == WriteEnvFilesFrom(EnvResult(env, envFiles, FALSE, {}, {}),
                                    defaults, clobber, order, failing)
         IN /\ env' = r.env
            /\ envFiles' = r.files
            /\ envLog' = Append(envLog, r)
    /\ UNCHANGED <<runVars, moreVars, nodeVars, probeVars, sumVars, defaults, clobber>>

EnvNext == writeEnvFiles

EnvSpec == EnvInit /\ [][EnvNext]_vars

\* ------------------------------------------------------------ CalcChecksum
\* The component specification SumSpec: the two calls of CalcChecksum of a
\* run, on a build directory whose regular files are written and removed
\* before and between them, up to MaxChanges times before each call.
MaxChanges == 2

\* The calls of CalcChecksum in Run.
ChecksumSteps == <<"CalcChecksumBefore", "CalcChecksumAfter">>

\* A path relative to the build directory and the content of a file are
\* sequences of symbols.  The paths: a, ab, .cloudfoundry/a and
\* .cloudfoundryb; the contents: nothing and the one byte b.
CloudfoundryPrefix == <<".cloudfoundry", "/">>
RelPaths ==
    { <<"a">>, <<"a", "b">>, <<".cloudfoundry", "/", "a">>, <<".cloudfoundry", "b">> }
Contents == { <<>>, <<"b">> }

\* The order in which filepath.Walk visits the paths (lexical, per
\* directory): .cloudfoundry/a, .cloudfoundryb, a, ab.
WalkOrder ==
    << <<".cloudfoundry", "/", "a">>, <<".cloudfoundry", "b">>, <<"a">>, <<"a", "b">> >>

\* strings.HasPrefix
HasPrefix(str, prefix) ==
    Len(str) >= Len(prefix) /\ SubSeq(str, 1, Len(prefix)) = prefix

\* The test of CalcChecksum with the prefix ".cloudfoundry" for
\* ".cloudfoundry/".
ExcludedNoSlash(relpath) == HasPrefix(relpath, <<".cloudfoundry">>)

\* strings.HasPrefix(relpath, ".cloudfoundry/"): the file is left out.
Excluded(relpath) == HasPrefix(relpath, CloudfoundryPrefix)

\* What the walk feeds to the hash for the files of t at the paths of
\* `order`: for every regular file that is not left out, its relative path
\* (io.WriteString) and then its bytes (io.Copy), nothing in between.
RECURSIVE HashStream(_, _)
HashStream(t, order) ==
    IF order = <<>> THEN <<>>
    ELSE LET relpath == Head(order)
         IN (IF relpath \in DOMAIN t /\ ~Excluded(relpath)
             THEN relpath \o t[relpath]
             ELSE <<>>)
            \o HashStream(t, Tail(order))

\* fmt.Sprintf("%x", h.Sum(nil)): the digest, taken as an injective
\* function of the stream.
Md5Hex(stream) == stream

\* What CalcChecksum returns on the tree t when it returns no error.
Checksum(t) == Md5Hex(HashStream(t, WalkOrder))

SumInit ==
    /\ RunIdle
    /\ ProbeIdle
    /\ EnvIdle
    /\ MoreIdle
    /\ cachedNeedsNode = FALSE
    /\ needsNode = FALSE
    /\ tree \in UNION {[d -> Contents] : d \in SUBSET RelPaths}
    /\ digests = <<>>
    /\ changes = 0

\* A regular file is created or its bytes are changed (the changes after
\* the second call of CalcChecksum are left out).
WriteFile ==
    /\ Len(digests) < Len(ChecksumSteps)
    /\ changes < MaxChanges
    /\ \E relpath \in RelPaths, bytes \in Contents :
         /\ relpath \in DOMAIN tree => tree[relpath] # bytes
         /\ tree' = [q \in DOMAIN tree \cup {relpath} |->
                        IF q = relpath THEN bytes ELSE tree[q]]
    /\ changes' = changes + 1
    /\ UNCHANGED <<runVars, moreVars, nodeVars, probeVars, envVars, digests>>

\* A regular file is removed.
RemoveFile ==
    /\ Len(digests) < Len(ChecksumSteps)
    /\ changes < MaxChanges
    /\ \E relpath \in DOMAIN tree :
         tree' = [q \in DOMAIN tree \ {relpath} |-> tree[q]]
    /\ changes' = changes + 1
    /\ UNCHANGED <<runVars, moreVars, nodeVars, probeVars, envVars, digests>>

\* s.CalcChecksum(): the digest, or the error of filepath.Rel, of the hash
\* or of os.Open for a file that is not left out.
CalcChecksum ==
    /\ Len(digests) < Len(ChecksumSteps)
    /\ \E ok \in BOOLEAN :
         /\ ~ok => \E relpath \in DOMAIN tree : ~Excluded(relpath)
         /\ digests' = Append(digests, [ok |-> ok,
                                        sum |-> IF ok THEN Checksum(tree) ELSE <<>>,
                                        tree |-> tree])
    /\ changes' = 0
    /\ UNCHANGED <<runVars, moreVars, nodeVars, probeVars, envVars, tree>>

SumNext ==
    \/ WriteFile
    \/ RemoveFile
    \/ CalcChecksum

SumSpec == SumInit /\ [][SumNext]_vars

\* --------------------------------------------------------- RewriteShebangs
\* The component specification ShebangSpec: the steps of Run that touch the
\* first line of the scripts of the dependency area, that is InstallRuby
\* (which calls RewriteShebangs), InstallGems and the call of RewriteShebangs
\* after it.  The dependency area is a tree of entries: a path is a pair of
\* a directory and a name, an entry a regular file with its first line, a
\* directory or a symbolic link.  A line is a sequence of tokens.
BinDir == <<"bin">>
RubyBinDir == <<"ruby", "bin">>
BundlerBinDir == <<"bundler", "bin">>
GemBinDir == <<"vendor_bundle", "ruby", "2.6.0", "bin">>
NoPath == <<>>

\* "#!/usr/bin/env ruby", the line RewriteShebangs writes.
PortableShebang == <<"#!", "/", "usr", "/", "bin", "/", "env", " ", "ruby">>
\* First lines an installed file comes with: the interpreter at the absolute
\* path of the host that built it, a shell script, a binary.
BuildShebang == <<"#!", "/", "tmp", "/", "ruby", "/", "bin", "/", "ruby">>
ShellShebang == <<"#!", "/", "bin", "/", "sh">>
NoShebang == <<"ELF">>

File(line) == [kind |-> "file", line |-> line, to |-> NoPath]
Dir == [kind |-> "dir", line |-> <<>>, to |-> NoPath]
Link(to) == [kind |-> "link", line |-> <<>>, to |-> to]

\* The entry os.Stat, ioutil.ReadFile and ioutil.WriteFile reach through
\* `path`: they follow symbolic links; NoPath for a link to nothing.
RECURSIVE Resolve(_, _)
Resolve(t, path) ==
    IF path \notin DOMAIN t THEN NoPath
    ELSE IF t[path].kind = "link" THEN Resolve(t, t[path].to)
    ELSE path

\* regexp `^#!/.*/ruby.*`: the text starts with "#!/" and its first line has
\* "/ruby" after that.
ShebangRegexMatches(line) ==
    /\ Len(line) >= 4
    /\ line[1] = "#!"
    /\ line[2] = "/"
    /\ \E i \in 3..(Len(line) - 1) : line[i] = "/" /\ line[i + 1] = "ruby"

\* shebangRegex.ReplaceAll(fileContents, "#!/usr/bin/env ruby") on the first
\* line: the match runs to the end of the line.
ReplaceAll(line) == IF ShebangRegexMatches(line) THEN PortableShebang ELSE line

\* filepath.Glob(DepDir/bin/*) and filepath.Glob(DepDir/vendor_bundle/ruby/*/bin/*).
InBin(path) == path[1] = BinDir
InGemBin(path) ==
    /\ Len(path[1]) = 4
    /\ path[1][1] = "vendor_bundle"
    /\ path[1][2] = "ruby"
    /\ path[1][4] = "bin"

\* The paths of the model in the order of append(files1, files2...), each
\* Glob answering in lexical order.
GlobOrder ==
    << <<BinDir, "bundle">>, <<BinDir, "gem">>, <<BinDir, "rake">>,
       <<BinDir, "ruby">>, <<BinDir, "ruby.exe">>,
       <<GemBinDir, "ext">>, <<GemBinDir, "rake">> >>
Globbed(t) == SelectSeq(GlobOrder, LAMBDA path : path \in DOMAIN t)

\* What a failed ioutil.WriteFile leaves of the file it opened with O_TRUNC.
Truncated == <<>>

\* The loop of RewriteShebangs over `files` from the tree t.  The step on
\* the file `failing` returns an error: before anything is written
\* (os.Stat, ioutil.ReadFile) or, with `damage`, from ioutil.WriteFile.
RECURSIVE RewriteFrom(_, _, _, _)
RewriteFrom(t, files, failing, damage) ==
    IF files = <<>> THEN [tree |-> t, err |-> FALSE]
    ELSE LET file == Head(files)
             target == Resolve(t, file)
         IN IF target = NoPath THEN [tree |-> t, err |-> TRUE]
            ELSE IF file = failing
            THEN [tree |-> IF damage /\ t[target].kind = "file"
                           THEN [t EXCEPT ![target].line = Truncated] ELSE t,
                  err |-> TRUE]
            ELSE IF t[target].kind = "dir"
            THEN RewriteFrom(t, Tail(files), failing, damage)
            ELSE RewriteFrom([t EXCEPT ![target].line = ReplaceAll(@)],
                             Tail(files), failing, damage)

\* s.RewriteShebangs() on the tree t.
RewriteShebangsOf(t, failing, damage) == RewriteFrom(t, Globbed(t), failing, damage)

\* The tree t with the entries `more` added (entries of `more` win).
Overlay(t, more) ==
    [path \in DOMAIN t \cup DOMAIN more |->
        IF path \in DOMAIN more THEN more[path] ELSE t[path]]

\* Stager.LinkDirectoryInDepDir(DepDir/<dir>, "bin"): a link in bin for
\* every entry of the directory.
LinkDirectoryInDepDir(t, dir) ==
    LET names == {path[2] : path \in {q \in DOMAIN t : q[1] = dir}}
    IN Overlay(t, [path \in {<<BinDir, name>> : name \in names} |->
                      Link(<<dir, path[2]>>)])

\* InstallBundler has run: the bundler gem with its executable, linked into
\* bin.
ShebangInit ==
    /\ OutsideShebangIdle
    /\ \E line \in {PortableShebang, BuildShebang} :
         shTree = LinkDirectoryInDepDir(
                      [path \in {<<BundlerBinDir, "bundle">>} |-> File(line)],
                      BundlerBinDir)
    /\ shpc = "InstallRuby"

\* s.InstallRuby(engine, rubyVersion): InstallDependency into DepDir/ruby
\* (the interpreter and a script, `gem`), RewriteShebangs, the ruby.exe
\* link, LinkDirectoryInDepDir.
ShInstallRuby ==
    /\ shpc = "InstallRuby"
    /\ \E gemLine \in {PortableShebang, BuildShebang},
          o \in {"installErr", "shebangErr", "symlinkErr", "linkErr", "ok"},
          failing \in {NoPath} \cup Range(GlobOrder), damage \in BOOLEAN :
         LET installed == Overlay(shTree,
                              [path \in {<<RubyBinDir, "ruby">>, <<RubyBinDir, "gem">>} |->
                                  IF path[2] = "ruby" THEN File(NoShebang)
                                  ELSE File(gemLine)])
             r == RewriteShebangsOf(installed, failing, damage)
             exe == Overlay(r.tree,
                            [path \in {<<RubyBinDir, "ruby.exe">>} |->
                                Link(<<RubyBinDir, "ruby">>)])
         IN /\ damage => failing # NoPath
            /\ failing # NoPath => failing \in DOMAIN installed
            /\ (o = "shebangErr") <=> (o # "installErr" /\ r.err)
            /\ shTree' = CASE o = "installErr" -> shTree
                           [] o \in {"shebangErr", "symlinkErr"} -> r.tree
                           [] o = "linkErr" -> exe
                           [] OTHER -> LinkDirectoryInDepDir(exe, RubyBinDir)
            /\ shpc' = IF o = "ok" THEN "InstallGems" ELSE "failed"
    /\ UNCHANGED outsideShebang

\* s.InstallGems(): `bundle install` puts the executable of a gem, and
\* with `ext` a directory, under vendor_bundle/ruby/<abi>/bin; the binstub
\* of the gem is copied into bin, where it has no namesake.
ShInstallGems ==
    /\ shpc = "InstallGems"
    /\ \E hasGemfile \in BOOLEAN, ok \in BOOLEAN, ext \in BOOLEAN,
          rakeLine \in {PortableShebang, BuildShebang, ShellShebang},
          stubLine \in {PortableShebang, BuildShebang} :
         /\ ~hasGemfile => (ok /\ ~ext /\ rakeLine = PortableShebang
                               /\ stubLine = PortableShebang)
         /\ ~ok => (~ext /\ rakeLine = PortableShebang /\ stubLine = PortableShebang)
         /\ shTree' =
              IF hasGemfile /\ ok
              THEN Overlay(shTree,
                       [path \in {<<GemBinDir, "rake">>, <<BinDir, "rake">>}
                                 \cup (IF ext THEN {<<GemBinDir, "ext">>} ELSE {}) |->
                           CASE path = <<GemBinDir, "rake">> -> File(rakeLine)
                             [] path = <<BinDir, "rake">> -> File(stubLine)
                             [] OTHER -> Dir])
              ELSE shTree
         /\ shpc' = IF ok THEN "RewriteShebangs" ELSE "failed"
    /\ UNCHANGED outsideShebang

\* s.RewriteShebangs(), the call of Run after InstallGems.
ShRewriteShebangs ==
    /\ shpc = "RewriteShebangs"
    /\ \E failing \in {NoPath} \cup Range(GlobOrder), damage \in BOOLEAN :
         LET r == RewriteShebangsOf(shTree, failing, damage)
         IN /\ damage => failing # NoPath
            /\ failing # NoPath => failing \in DOMAIN shTree
            /\ shTree' = r.tree
            /\ shpc' = IF r.err THEN "failed" ELSE "SymlinkBundlerIntoRubygems"
    /\ UNCHANGED outsideShebang

ShebangNext ==
    \/ ShInstallRuby
    \/ ShInstallGems
    \/ ShRewriteShebangs

ShebangSpec == ShebangInit /\ [][ShebangNext]_vars

\* ------------------------------------------------- InstallGems on the files
\* The component specification GemsSpec: one call of InstallGems over the
\* files it works on.  A path is a pair of an area and a name; the areas are
\* the staging directory ("build"), the scratch copy made by CopyDirToTemp
\* ("temp"), the dependency area ("dep") with its directories "bin" and
\* "binstubs".  gfiles maps a path to an inode, gnodes an inode to its
\* content: `cp -al` makes hard links, so a path of the scratch copy names
\* the inode of the staging directory's file until it is unlinked.
LockName == "Gemfile.lock"
ConfigName == ".bundle/config"
GlobalConfig == <<"dep", "bundle_config">>
SavedLock == <<"dep", "Gemfile.lock">>
BundleStub == "bundle"

Fs(files, nodes) == [files |-> files, nodes |-> nodes]
Exists(fs, path) == path \in DOMAIN fs.files
Content(fs, path) == fs.nodes[fs.files[path]]
InArea(fs, area) == {path \in DOMAIN fs.files : path[1] = area}

\* An unlink that takes the file away under every name it has.
UnlinkEverywhere(fs, path) ==
    Fs([p \in {q \in DOMAIN fs.files : fs.files[q] # fs.files[path]} |-> fs.files[p]],
       fs.nodes)

\* os.Remove(path) of a regular file: the name goes, the inode stays for the
\* other names it has.
Unlink(fs, path) ==
    Fs([p \in DOMAIN fs.files \ {path} |-> fs.files[p]], fs.nodes)

\* Opening `path` for writing (O_CREATE|O_TRUNC) and writing `content`: an
\* existing file keeps its inode.
WriteTo(fs, path, content) ==
    IF Exists(fs, path)
    THEN Fs(fs.files, [fs.nodes EXCEPT ![fs.files[path]] = content])
    ELSE Fs((path :> (Len(fs.nodes) + 1)) @@ fs.files, Append(fs.nodes, content))

\* libbuildpack.CopyFile(source, target)
CopyFile(fs, source, target) == WriteTo(fs, target, Content(fs, source))

\* os.Rename(source, target)
Rename(fs, source, target) ==
    Unlink(Fs((target :> fs.files[source]) @@ fs.files, fs.nodes), source)

\* exec.Command("cp", "-al", dir, tempDir): every file of the staging
\* directory gets a second name in the scratch copy.
CopyDirToTemp(fs) ==
    Fs([path \in {<<"temp", q[2]>> : q \in InArea(fs, "build")} |->
           fs.files[<<"build", path[2]>>]] @@ fs.files,
       fs.nodes)

\* os.RemoveAll(tempDir)
RemoveAll(fs, area) ==
    Fs([p \in DOMAIN fs.files \ InArea(fs, area) |-> fs.files[p]], fs.nodes)

\* One entry of gruns: a call InstallGems made, whether it succeeded (for
\* `bundle install`: whether --deployment was passed), and what the scratch
\* copy held at that moment.
Event(op, flag, fs) ==
    [op |-> op, flag |-> flag,
     lock |-> Exists(fs, <<"temp", LockName>>),
     config |-> IF Exists(fs, <<"temp", ConfigName>>)
                THEN Content(fs, <<"temp", ConfigName>>) ELSE "none"]

\* Would pass --deployment whenever the application has a lock file.
DeploymentByStagingLock(fs) == Exists(fs, <<"build", LockName>>)

\* FileExists(gemfileLock) on the scratch copy decides --deployment.
Deployment(fs) == Exists(fs, <<"temp", LockName>>)

\* Would copy every binstub into bin.
FreshBinstubsAll(fs) == {path[2] : path \in InArea(fs, "binstubs")}

\* The binstubs InstallGems copies: those with no namesake in DepDir/bin.
FreshBinstubs(fs) ==
    {path[2] : path \in {q \in InArea(fs, "binstubs") : ~Exists(fs, <<"bin", q[2]>>)}}

\* The names ioutil.ReadDir can answer, in its (lexical) order.
BinstubOrder == <<"bundle", "rails", "rake">>

\* The loop "Copy binstubs to bin" over `names`; FileExists or CopyFile
\* fails at the name `failing`.
RECURSIVE CopyBinstubsFrom(_, _, _)
CopyBinstubsFrom(fs, names, failing) ==
    IF names = <<>> THEN [fs |-> fs, err |-> FALSE]
    ELSE IF Head(names) = failing THEN [fs |-> fs, err |-> TRUE]
    ELSE IF Head(names) \in FreshBinstubs(fs)
    THEN CopyBinstubsFrom(CopyFile(fs, <<"binstubs", Head(names)>>, <<"bin", Head(names)>>),
                          Tail(names), failing)
    ELSE CopyBinstubsFrom(fs, Tail(names), failing)

GemsFs == Fs(gfiles, gnodes)
SetFs(fs) == gfiles' = fs.files /\ gnodes' = fs.nodes
GemsGoto(next) == gpc' = next /\ gret' = gret
GemsReturn(value) == gpc' = "returned" /\ gret' = value
Log(event) == gruns' = Append(gruns, event)

\* The staging directory with or without a lock file (written on Unix or on
\* Windows) and a checked-in .bundle/config; DepDir/bin after InstallBundler
\* and InstallRuby; $BUNDLE_CONFIG present or not.
GemsInit ==
    /\ OutsideGemsIdle
    /\ \E lock \in {"none", "unix lock", "windows lock"},
          config \in {"none", "checked in"}, global \in {"none", "global"} :
         LET names == (IF lock = "none" THEN {} ELSE {<<"build", LockName>>})
                        \cup (IF config = "none" THEN {} ELSE {<<"build", ConfigName>>})
                        \cup (IF global = "none" THEN {} ELSE {GlobalConfig})
                        \cup {<<"bin", BundleStub>>, <<"bin", "rake">>}
             order == <<lock, config, global, "bundler", "runtime">>
             slot == [path \in {<<"build", LockName>>, <<"build", ConfigName>>,
                                GlobalConfig, <<"bin", BundleStub>>, <<"bin", "rake">>} |->
                         CASE path = <<"build", LockName>> -> 1
                           [] path = <<"build", ConfigName>> -> 2
                           [] path = GlobalConfig -> 3
                           [] path = <<"bin", BundleStub>> -> 4
                           [] OTHER -> 5]
         IN /\ gfiles = [path \in names |-> slot[path]]
            /\ gnodes = order
    /\ gpc = "InstallGems"
    /\ gret = ""
    /\ gruns = <<>>

\* The start of InstallGems: the Gemfile guard, TempDir.CopyDirToTemp and
\* filepath.Rel, whose errors make InstallGems return nil.
GemsCopyDirToTemp ==
    /\ gpc = "InstallGems"
    /\ \E hasGemfile \in BOOLEAN, o \in {"tempDirErr", "cpErr", "relErr", "ok"} :
         /\ ~hasGemfile => o = "ok"
         /\ IF ~hasGemfile
            THEN GemsReturn("nil") /\ UNCHANGED <<gfiles, gnodes, gruns>>
            ELSE /\ SetFs(IF o \in {"relErr", "ok"} THEN CopyDirToTemp(GemsFs) ELSE GemsFs)
                 /\ Log(Event("CopyDirToTemp", o \in {"relErr", "ok"}, GemsFs))
                 /\ IF o = "ok" THEN GemsGoto("WindowsLock") ELSE GemsReturn("nil")
    /\ UNCHANGED outsideGems

\* Versions.HasWindowsGemfileLock(), which reads the staging directory's
\* lock file, and os.Remove(gemfileLock) in the scratch copy.
GemsWindowsLock ==
    /\ gpc = "WindowsLock"
    /\ \E o \in {"checkErr", "notWindows", "removeErr", "removed"} :
         LET windows == /\ Exists(GemsFs, <<"build", LockName>>)
                        /\ Content(GemsFs, <<"build", LockName>>) = "windows lock"
         IN /\ o = "notWindows" => ~windows
            /\ o \in {"removeErr", "removed"} => windows
            /\ o = "removed" => Exists(GemsFs, <<"temp", LockName>>)
            /\ SetFs(IF o = "removed" THEN Unlink(GemsFs, <<"temp", LockName>>)
                     ELSE GemsFs)
            /\ IF o \in {"removeErr", "removed"}
               THEN Log(Event("os.Remove " \o LockName, o = "removed", GemsFs))
               ELSE gruns' = gruns
            /\ IF o \in {"notWindows", "removed"} THEN GemsGoto("BundleConfig")
               ELSE GemsReturn("error")
    /\ UNCHANGED outsideGems

\* What the file the staging directory and the scratch copy share can hold
\* after CopyFile has copied it onto itself.
OntoItself(content) == {content, ""}

\* "Remove .bundle/config && copy if exists": os.Remove of the scratch
\* copy's name and CopyFile of the staging directory's file to it, neither
\* error looked at.
GemsBundleConfig ==
    /\ gpc = "BundleConfig"
    /\ \E statOk \in BOOLEAN, removed \in BOOLEAN, copied \in BOOLEAN,
          left \in OntoItself("checked in") :
         LET there == Exists(GemsFs, <<"temp", ConfigName>>)
             unlinked == IF removed THEN Unlink(GemsFs, <<"temp", ConfigName>>)
                         ELSE GemsFs
             after == CASE ~copied -> unlinked
                        [] removed -> CopyFile(unlinked, <<"build", ConfigName>>,
                                               <<"temp", ConfigName>>)
                        [] OTHER -> WriteTo(unlinked, <<"temp", ConfigName>>, left)
         IN /\ (~statOk \/ ~there) => (removed /\ copied)
            /\ (removed \/ ~copied) => left = "checked in"
            /\ IF ~statOk
               THEN GemsReturn("error") /\ UNCHANGED <<gfiles, gnodes, gruns>>
               ELSE IF ~there
               THEN GemsGoto("BundleInstall") /\ UNCHANGED <<gfiles, gnodes, gruns>>
               ELSE /\ SetFs(after)
                    /\ Log(Event("os.Remove " \o ConfigName, removed, GemsFs))
                    /\ GemsGoto("BundleInstall")
    /\ UNCHANGED outsideGems

\* FileExists(gemfileLock), the arguments, and `bundle install` in the
\* scratch copy: it resolves a lock file where there is none, writes the
\* binstubs, and with `gen` writes its settings to .bundle/config.
GemsBundleInstall ==
    /\ gpc = "BundleInstall"
    /\ \E o \in {"statErr", "runErr", "ok"}, gen \in BOOLEAN :
         LET locked == IF Exists(GemsFs, <<"temp", LockName>>) THEN GemsFs
                       ELSE WriteTo(GemsFs, <<"temp", LockName>>, "resolved lock")
             stubs == WriteTo(WriteTo(WriteTo(locked,
                          <<"binstubs", BundleStub>>, "binstub bundle"),
                          <<"binstubs", "rails">>, "binstub rails"),
                          <<"binstubs", "rake">>, "binstub rake")
             done == IF gen THEN WriteTo(stubs, <<"temp", ConfigName>>, "generated")
                     ELSE stubs
         IN /\ o # "ok" => ~gen
            /\ SetFs(IF o = "ok" THEN done ELSE GemsFs)
            /\ IF o = "statErr" THEN gruns' = gruns
               ELSE Log(Event("bundle install", Deployment(GemsFs), GemsFs))
            /\ IF o = "ok" THEN GemsGoto("regenerateBundlerBinStub")
               ELSE GemsReturn("error")
    /\ UNCHANGED outsideGems

\* s.regenerateBundlerBinStub(tempDir): `bundle binstubs bundler --force`,
\* then CopyFile of binstubs/bundle to bin/bundle.
GemsRegenerateBinStub ==
    /\ gpc = "regenerateBundlerBinStub"
    /\ \E o \in {"runErr", "copyErr", "ok"} :
         LET forced == WriteTo(GemsFs, <<"binstubs", BundleStub>>, "binstub bundler")
         IN /\ SetFs(CASE o = "runErr" -> GemsFs
                       [] o = "copyErr" -> forced
                       [] OTHER -> CopyFile(forced, <<"binstubs", BundleStub>>,
                                            <<"bin", BundleStub>>))
            /\ Log(Event("bundle binstubs", o # "runErr", GemsFs))
            /\ IF o = "ok" THEN GemsGoto("Clean") ELSE GemsReturn("error")
    /\ UNCHANGED outsideGems

\* `bundle clean` in the scratch copy.
GemsClean ==
    /\ gpc = "Clean"
    /\ \E ok \in BOOLEAN :
         /\ Log(Event("bundle clean", ok, GemsFs))
         /\ IF ok THEN GemsGoto("CopyBinstubs") ELSE GemsReturn("error")
    /\ UNCHANGED <<gfiles, gnodes, outsideGems>>

\* "Copy binstubs to bin"
GemsCopyBinstubs ==
    /\ gpc = "CopyBinstubs"
    /\ \E readDirOk \in BOOLEAN, failing \in {""} \cup Range(BinstubOrder) :
         LET r == CopyBinstubsFrom(GemsFs, BinstubOrder, failing)
         IN /\ ~readDirOk => failing = ""
            /\ SetFs(IF readDirOk THEN r.fs ELSE GemsFs)
            /\ IF readDirOk /\ ~r.err THEN GemsGoto("SaveConfig")
               ELSE GemsReturn("error")
    /\ UNCHANGED <<gruns, outsideGems>>

\* "Save .bundle/config to global config": os.Rename to $BUNDLE_CONFIG when
\* FileExists answers (true, nil).
GemsSaveConfig ==
    /\ gpc = "SaveConfig"
    /\ \E o \in {"skipped", "renameErr", "renamed"} :
         /\ o \in {"renameErr", "renamed"} => Exists(GemsFs, <<"temp", ConfigName>>)
         /\ SetFs(IF o = "renamed"
                  THEN Rename(GemsFs, <<"temp", ConfigName>>, GlobalConfig)
                  ELSE GemsFs)
         /\ Log(Event("SaveBundleConfig", o = "renamed", GemsFs))
         /\ IF o = "renameErr" THEN GemsReturn("error") ELSE GemsGoto("SaveLock")
    /\ UNCHANGED outsideGems

\* "Save Gemfile.lock for finalize": CopyFile to DepDir/Gemfile.lock when
\* FileExists answers (true, nil).
GemsSaveLock ==
    /\ gpc = "SaveLock"
    /\ \E o \in {"skipped", "copyErr", "copied"} :
         /\ o \in {"copyErr", "copied"} => Exists(GemsFs, <<"temp", LockName>>)
         /\ SetFs(IF o = "copied"
                  THEN CopyFile(GemsFs, <<"temp", LockName>>, SavedLock)
                  ELSE GemsFs)
         /\ IF o = "copyErr" THEN GemsReturn("error") ELSE GemsGoto("RemoveAll")
    /\ UNCHANGED <<gruns, outsideGems>>

\* return os.RemoveAll(tempDir)
GemsRemoveAll ==
    /\ gpc = "RemoveAll"
    /\ \E ok \in BOOLEAN :
         /\ SetFs(IF ok THEN RemoveAll(GemsFs, "temp") ELSE GemsFs)
         /\ GemsReturn(IF ok THEN "nil" ELSE "error")
    /\ UNCHANGED <<gruns, outsideGems>>

GemsNext ==
    \/ GemsCopyDirToTemp
    \/ GemsWindowsLock
    \/ GemsBundleConfig
    \/ GemsBundleInstall
    \/ GemsRegenerateBinStub
    \/ GemsClean
    \/ GemsCopyBinstubs
    \/ GemsSaveConfig
    \/ GemsSaveLock
    \/ GemsRemoveAll

GemsSpec == GemsInit /\ [][GemsNext]_vars

\* ------------------------------------------- WriteProfileD and the cache
\* The component specification SecretSpec: consecutive runs of Run for one
\* application, as far as they touch Cache.Metadata().SecretKeyBase, that is
\* Cache.Restore, WriteProfileD and Cache.Save.  A string is a sequence of
\* tokens, the empty string the empty sequence.
MaxRuns == 2

Whitespace == {" ", "\n"}
\* What `bundle exec rake secret` prints when it succeeds.
RakeOutputs == { <<"a", "\n">>, <<" ", "b", "\n">> }

\* strings.TrimSpace
RECURSIVE TrimLeft(_)
TrimLeft(str) ==
    IF str # <<>> /\ Head(str) \in Whitespace THEN TrimLeft(Tail(str)) ELSE str
RECURSIVE TrimRight(_)
TrimRight(str) ==
    IF str # <<>> /\ str[Len(str)] \in Whitespace
    THEN TrimRight(SubSeq(str, 1, Len(str) - 1)) ELSE str
TrimSpace(str) == TrimRight(TrimLeft(str))

\* What a call of WriteProfileD leaves: its error, SecretKeyBase, whether
\* `rake secret` was run, and the secret ruby.sh exports (`exported`: ruby.sh
\* was written with the export line).
ProfileResult(err, secret, rake, exported) ==
    [err |-> err, secret |-> secret, rake |-> rake, exported |-> exported]

\* A WriteProfileD that runs `rake secret` whatever SecretKeyBase holds.
WriteProfileDAlwaysRakes(hasGemfile, hasLock, rails, secret, o, out) ==
    IF o = "engineVersionErr" THEN ProfileResult(TRUE, secret, FALSE, FALSE)
    ELSE IF ~(hasGemfile /\ hasLock)
    THEN ProfileResult(o = "writeErr", secret, FALSE, FALSE)
    ELSE IF rails = "err" THEN ProfileResult(TRUE, secret, FALSE, FALSE)
    ELSE IF rails = "no" THEN ProfileResult(o = "writeErr", secret, FALSE, FALSE)
    ELSE IF o = "rakeErr" THEN ProfileResult(TRUE, out, TRUE, FALSE)
    ELSE ProfileResult(o = "writeErr", TrimSpace(out), TRUE, o # "writeErr")

\* s.WriteProfileD(engine) with appHasGemfile, appHasGemfileLock, the answer
\* `rails` of HasGemVersion("rails", ">=4.1.0.beta1"), SecretKeyBase holding
\* `secret`; `o` says which call fails, `out` is what `rake secret` prints.
WriteProfileDResult(hasGemfile, hasLock, rails, secret, o, out) ==
    IF o = "engineVersionErr" THEN ProfileResult(TRUE, secret, FALSE, FALSE)
    ELSE IF ~(hasGemfile /\ hasLock)
    THEN ProfileResult(o = "writeErr", secret, FALSE, FALSE)
    ELSE IF rails = "err" THEN ProfileResult(TRUE, secret, FALSE, FALSE)
    ELSE IF rails = "no" THEN ProfileResult(o = "writeErr", secret, FALSE, FALSE)
    ELSE IF secret # <<>>
    THEN ProfileResult(o = "writeErr", secret, FALSE, o # "writeErr")
    ELSE IF o = "rakeErr" THEN ProfileResult(TRUE, out, TRUE, FALSE)
    ELSE ProfileResult(o = "writeErr", TrimSpace(out), TRUE, o # "writeErr")

\* One entry of secRuns, a run: whether Cache.Restore restored a saved
\* cache, SecretKeyBase when WriteProfileD was called, what WriteProfileD
\* left, whether Cache.Save was called and SecretKeyBase at that moment, and
\* how the run ended ("" while it runs).
RunRecord == [restored |-> FALSE, before |-> <<>>,
              profile |-> ProfileResult(FALSE, <<>>, FALSE, FALSE),
              saveCalled |-> FALSE, atSave |-> <<>>, result |-> ""]
ThisRun == secRuns[Len(secRuns)]
Record(r) == secRuns' = [secRuns EXCEPT ![Len(secRuns)] = r]

\* The first run of an application: nothing is saved for it.
SecretInit ==
    /\ OutsideSecretIdle
    /\ secApp \in [gemfile : BOOLEAN, lock : BOOLEAN, rails : BOOLEAN]
    /\ secApp.lock => secApp.gemfile
    /\ secApp.rails => secApp.gemfile
    /\ savedCache = [present |-> FALSE, secret |-> <<>>]
    /\ metadata = <<>>
    /\ secpc = "CacheRestore"
    /\ secRuns = <<RunRecord>>

\* The end of a run with an error.
SecretFail ==
    /\ secpc' = "done"
    /\ Record([ThisRun EXCEPT !.result = "error"])

\* s.Cache.Restore(): the saved metadata, if a saved cache is there and is
\* restored, becomes the metadata of this run.
SecretCacheRestore ==
    /\ secpc = "CacheRestore"
    /\ \E ok \in BOOLEAN, restored \in BOOLEAN :
         /\ restored => (ok /\ savedCache.present)
         /\ metadata' = IF restored THEN savedCache.secret ELSE metadata
         /\ IF ok
            THEN /\ secpc' = "InstallBundler"
                 /\ Record([ThisRun EXCEPT !.restored = restored])
            ELSE SecretFail
    /\ UNCHANGED <<secApp, savedCache, outsideSecret>>

\* The steps of Run from InstallBundler to SymlinkBundlerIntoRubygems: none
\* touches the metadata.
SecretSteps ==
    /\ secpc = "InstallBundler"
    /\ \E ok \in BOOLEAN :
         IF ok THEN secpc' = "WriteProfileD" /\ secRuns' = secRuns
         ELSE SecretFail
    /\ UNCHANGED <<secApp, savedCache, metadata, outsideSecret>>

\* s.WriteProfileD(engine)
SecretWriteProfileD ==
    /\ secpc = "WriteProfileD"
    /\ \E o \in {"engineVersionErr", "rakeErr", "writeErr", "ok"},
          railsErr \in BOOLEAN, out \in RakeOutputs :
         LET rails == CASE railsErr -> "err"
                        [] secApp.rails -> "yes"
                        [] OTHER -> "no"
             r == WriteProfileDResult(secApp.gemfile, secApp.lock, rails,
                                      metadata, o, out)
         IN /\ o = "rakeErr" => r.rake
            /\ ~r.rake => out = <<"a", "\n">>
            /\ railsErr => (o = "ok" /\ secApp.gemfile /\ secApp.lock)
            /\ metadata' = r.secret
            /\ secpc' = IF r.err THEN "done" ELSE "CacheSave"
            /\ Record([ThisRun EXCEPT !.before = metadata, !.profile = r,
                                      !.result = IF r.err THEN "error" ELSE @])
    /\ UNCHANGED <<secApp, savedCache, outsideSecret>>

\* s.Cache.Save(): the metadata of this run is saved with the cache,
\* overwriting what was saved.
SecretCacheSave ==
    /\ secpc = "CacheSave"
    /\ \E ok \in BOOLEAN :
         /\ savedCache' = IF ok THEN [present |-> TRUE, secret |-> metadata]
                          ELSE savedCache
         /\ secpc' = IF ok THEN "SetStagingEnvironment" ELSE "done"
         /\ Record([ThisRun EXCEPT !.saveCalled = TRUE, !.atSave = metadata,
                                   !.result = IF ok THEN @ ELSE "error"])
    /\ UNCHANGED <<secApp, metadata, outsideSecret>>

\* The rest of Run, from SetStagingEnvironment.
SecretFinish ==
    /\ secpc = "SetStagingEnvironment"
    /\ \E ok \in BOOLEAN :
         /\ secpc' = "done"
         /\ Record([ThisRun EXCEPT !.result = IF ok THEN "ok" ELSE "error"])
    /\ UNCHANGED <<secApp, savedCache, metadata, outsideSecret>>

\* The next run for the same application: a new process, with a new
\* Supplier and empty metadata.
SecretNextRun ==
    /\ secpc = "done"
    /\ Len(secRuns) < MaxRuns
    /\ secpc' = "CacheRestore"
    /\ metadata' = <<>>
    /\ secRuns' = Append(secRuns, RunRecord)
    /\ UNCHANGED <<secApp, savedCache, outsideSecret>>

SecretNext ==
    \/ SecretCacheRestore
    \/ SecretSteps
    \/ SecretWriteProfileD
    \/ SecretCacheSave
    \/ SecretFinish
    \/ SecretNextRun

SecretSpec == SecretInit /\ [][SecretNext]_vars

\* ----------------------------------------------------------- UpdateRubygems
\* The component specification RubygemsSpec: one call of UpdateRubygems with
\* the versions of rubygems the catalog lists, the answer of `gem --version`
\* and the answer of Versions.Engine().
RubygemsVersions == {<<3, 0, 3>>, <<3, 1, 0>>}
GemVersions == {<<2, 7, 6>>, <<3, 0, 3>>, <<3, 0, 8>>}
GemVersionAnswers ==
    [ok : {TRUE}, parses : {TRUE}, version : GemVersions]
        \cup {[ok |-> FALSE, parses |-> FALSE, version |-> NoVersion],
              [ok |-> TRUE, parses |-> FALSE, version |-> NoVersion]}
RubygemsEngines == {"ruby", "jruby", "rbx", "err"}
RubygemsInputs ==
    [versions : SUBSET RubygemsVersions, current : GemVersionAnswers,
     engine : RubygemsEngines]

InstallRubygems == <<"Installer", "rubygems">>
SetupRubygems == <<"Command", "ruby setup.rb">>
GemVersionCommand == <<"Command", "gem --version">>

\* Versions.VersionConstraint(currVersion, ">= <version>")
VersionConstraint(current, version) == ~VersionLess(current, version)

RubygemsResult(err, made) == [err |-> err, calls |-> made]

\* An UpdateRubygems that does not look at the engine.
UpdateRubygemsForAnyEngine(versions, current, eng, o) ==
    IF Cardinality(versions) = 0 THEN RubygemsResult(FALSE, <<>>)
    ELSE IF Cardinality(versions) > 1 THEN RubygemsResult(TRUE, <<>>)
    ELSE LET version == CHOOSE v \in versions : TRUE
             asked == <<GemVersionCommand>>
         IN IF ~current.ok THEN RubygemsResult(TRUE, asked)
            ELSE IF ~current.parses THEN RubygemsResult(TRUE, asked)
            ELSE IF VersionConstraint(current.version, version)
            THEN RubygemsResult(FALSE, asked)
            ELSE IF o = "tempErr" THEN RubygemsResult(TRUE, asked)
            ELSE IF o \in {"installErr", "mkdirErr"}
            THEN RubygemsResult(TRUE, Append(asked, InstallRubygems))
            ELSE RubygemsResult(o = "setupErr",
                                asked \o <<InstallRubygems, SetupRubygems>>)

\* s.UpdateRubygems(); `o` says which of ioutil.TempDir, InstallDependency,
\* os.MkdirAll and `ruby setup.rb` fails, if they are reached.
UpdateRubygemsResult(versions, current, eng, o) ==
    IF Cardinality(versions) = 0 THEN RubygemsResult(FALSE, <<>>)
    ELSE IF Cardinality(versions) > 1 THEN RubygemsResult(TRUE, <<>>)
    ELSE LET version == CHOOSE v \in versions : TRUE
             asked == <<GemVersionCommand>>
         IN IF ~current.ok THEN RubygemsResult(TRUE, asked)
            ELSE IF ~current.parses THEN RubygemsResult(TRUE, asked)
            ELSE IF VersionConstraint(current.version, version)
            THEN RubygemsResult(FALSE, asked)
            ELSE IF eng = "err" THEN RubygemsResult(TRUE, asked)
            ELSE IF eng = "jruby" THEN RubygemsResult(FALSE, asked)
            ELSE IF o = "tempErr" THEN RubygemsResult(TRUE, asked)
            ELSE IF o \in {"installErr", "mkdirErr"}
            THEN RubygemsResult(TRUE, Append(asked, InstallRubygems))
            ELSE RubygemsResult(o = "setupErr",
                                asked \o <<InstallRubygems, SetupRubygems>>)

RubygemsInit ==
    /\ OutsideRubygemsIdle
    /\ rgIn \in RubygemsInputs
    /\ rgOut = <<>>

\* The call s.UpdateRubygems() of Run.
RunUpdateRubygems ==
    /\ rgOut = <<>>
    /\ \E o \in {"tempErr", "installErr", "mkdirErr", "setupErr", "ok"} :
         rgOut' = <<UpdateRubygemsResult(rgIn.versions, rgIn.current, rgIn.engine, o)>>
    /\ UNCHANGED <<rgIn, outsideRubygems>>

RubygemsNext == RunUpdateRubygems

RubygemsSpec == RubygemsInit /\ [][RubygemsNext]_vars

\* ------------------------------------------------------ IndentedWriter.Write
\* The component specification WriterSpec: one call w.Write(p) on an
\* IndentedWriter with the padding wIn.pad, as the chain of calls of Write
\* it makes.  A byte string is a sequence of tokens.  The stack of a Go
\* program is finite: MaxDepth frames of Write fit, the next call ends the
\* process with a fatal stack overflow.
MaxDepth == 3
MaxLen == 3

Bytes == {"a", "\n"}
Pads == {<<>>, <<" ">>, <<" ", " ">>}
Inputs == UNION {[1..n -> Bytes] : n \in 0..MaxLen}

\* strings.Join of the lines of strings.Split(p, "\n"), each with `pad` in
\* front: the padding goes before the first byte and after every "\n".
RECURSIVE AfterNewlines(_, _)
AfterNewlines(pad, p) ==
    IF p = <<>> THEN <<>>
    ELSE IF Head(p) = "\n" THEN <<"\n">> \o pad \o AfterNewlines(pad, Tail(p))
    ELSE <<Head(p)>> \o AfterNewlines(pad, Tail(p))
Indent(pad, p) == pad \o AfterNewlines(pad, p)

WriterInit ==
    /\ OutsideWriterIdle
    /\ wIn \in [pad : Pads, p : Inputs]
    /\ wp = wIn.p
    /\ wdepth = 0
    /\ wunder = <<>>
    /\ wstate = "called"

\* The body of Write in a new frame: it pads the lines of p and calls
\* w.Write(p), which is Write itself, on the padded bytes.
IndentedWrite ==
    /\ wstate \in {"called", "running"}
    /\ wdepth < MaxDepth
    /\ wp' = Indent(wIn.pad, wp)
    /\ wdepth' = wdepth + 1
    /\ wstate' = "running"
    /\ UNCHANGED <<wIn, wunder, outsideWriter>>

\* The call that no longer fits on the stack.
StackOverflow ==
    /\ wstate = "running"
    /\ wdepth = MaxDepth
    /\ wstate' = "fatal"
    /\ UNCHANGED <<wIn, wp, wdepth, wunder, outsideWriter>>

WriterNext ==
    \/ IndentedWrite
    \/ StackOverflow

WriterSpec == WriterInit /\ [][WriterNext]_vars

\* The process runs as long as it can.
WriterFairSpec == WriterSpec /\ WF_vars(WriterNext)

\* ------------------------------------------------------------------ claims
Called(c) == \E i \in 1..Len(calls) : calls[i] = c
Started(step) == \E i \in 1..Len(steps) : steps[i] = step

\* The steps of Run in the order of its source text.
RunOrder ==
    <<"DefaultVersionFreetds", "InstallFreetds", "WriteProfileDFreetds", "Touch",
      "CalcChecksumBefore", "Setup", "CacheRestore", "InstallBundler",
      "CreateDefaultEnv", "EnableLDLibraryPathEnv", "DetermineRuby", "InstallJVM",
      "InstallRuby", "AddPostRubyInstallDefaultEnv", "UpdateRubygems", "NeedsNode",
      "InstallNode", "InstallYarn", "InstallGems", "RewriteShebangs",
      "SymlinkBundlerIntoRubygems", "WriteProfileD", "CacheSave",
      "SetStagingEnvironment", "CalcChecksumAfter", "FindChanged">>
OrderOf == [step \in Range(RunOrder) |-> CHOOSE i \in 1..Len(RunOrder) : RunOrder[i] = step]
InFixedOrder ==
    \A i \in 1..(Len(steps) - 1) : OrderOf[steps[i]] < OrderOf[steps[i + 1]]

\* The calls of Run whose error it discards.
DiagnosticSteps == {"Touch", "CalcChecksumBefore", "CalcChecksumAfter", "FindChanged"}

\* Positions inside InstallBundler and inside InstallGems.
InInstallBundler ==
    pc \in {"InstallBundler", "installBundlerTwo", "CheckBundler2Compatibility",
            "uninstallBundlerTwo"}
InInstallGems ==
    pc \in {"InstallGems", "InstallGemsWindowsLock", "InstallGemsBundleConfig",
            "InstallGemsBundleInstall", "regenerateBundlerBinStub",
            "InstallGemsClean", "InstallGemsCopyBinstubs", "InstallGemsSaveConfig",
            "InstallGemsSaveLock", "InstallGemsRemoveAll"}
InstallBundlerReturned == Started("InstallBundler") /\ ~InInstallBundler
InstallGemsReturned == Started("InstallGems") /\ ~InInstallGems
BundleCalls == {c \in Range(calls) : c[1] = "bundle"}
BundleInstallCalls ==
    BundleCalls \cap {<<"bundle", "install">>, <<"bundle", "install --deployment">>}

\* C1, as stated: the steps of Run run in the fixed order, and whenever a
\* step has returned an error Run has returned an error, that step being the
\* last one executed.
C1_EveryStepErrorStopsRun ==
    /\ InFixedOrder
    /\ stepErr # "" =>
         /\ pc = "done"
         /\ result = "error"
         /\ steps[Len(steps)] = stepErr

\* C1, amended: the steps of Run run in the fixed order, and whenever a step
\* other than the four diagnostic calls (touch, the two CalcChecksum, find)
\* has returned an error, Run has returned an error, that step is the last
\* one executed and nothing more can run; Run returns an error only so.
C1_CheckedStepErrorStopsRun ==
    /\ InFixedOrder
    /\ stepErr \notin (DiagnosticSteps \cup {""}) =>
         /\ pc = "done"
         /\ result = "error"
         /\ steps[Len(steps)] = stepErr
    /\ result = "error" => stepErr \notin (DiagnosticSteps \cup {""})
    /\ pc = "done" => ~ENABLED Next

\* C1 witness: a checked step late in Run (InstallGems) failed and Run ended.
C1_Witness ==
    /\ result = "error"
    /\ stepErr = "InstallGems"
    /\ Called(<<"Cache", "Restore">>)
    /\ ~Called(<<"Cache", "Save">>)

\* C2, as stated: whenever Cache.Save has been called in a run with a
\* Gemfile, `bundle install` has run (and, the run having gone on, succeeded)
\* in a scratch copy that was created.
C2_SaveOnlyAfterBundleInstall ==
    (Called(<<"Cache", "Save">>) /\ appHasGemfile) => BundleInstallCalls # {}

\* C3, as stated: once InstallGems has returned, with or without an error,
\* the scratch copy made by CopyDirToTemp does not exist.
C3_ScratchCopyRemoved ==
    InstallGemsReturned => ~scratch.copy

\* The gem files of bundler version v below DepDir/bundler: the gem directory
\* bundler/gems/bundler-<v> and bundler/specifications/bundler-<v>.gemspec.
GemFilesOf(v) ==
    {p \in depFiles : /\ p[3] = v
                      /\ p[1] \in {<<"bundler", "gems">>, <<"bundler", "specifications">>}}

C5_CompatibleKeepsPrimary ==
    (InstallBundlerReturned /\ appHasGemfile /\ compat = <<"true">>) =>
        LET one == FindMatchingVersion(1, catalog)
        IN /\ stepErr # "InstallBundler"
           /\ bundlerVersion = FindMatchingVersion(2, catalog)
           /\ bundlerVersion[1] = 2
           /\ { Path(<<"bundler", "bin">>, "bundle", one),
                Path(<<"bundler", "gems">>, "bundler-%s", one),
                Path(<<"bundler", "gems">>, "bundler-%s/lib", one),
                Path(<<"bundler", "specifications">>, "bundler-%s.gemspec", one) }
                \subseteq depFiles
           /\ \E p \in depFiles : p[1] = <<"bin">> /\ p[2] = "bundle"
           /\ ~Called(<<"bundle", "binstubs">>) =>
                Path(<<"bin">>, "bundle", one) \in depFiles

\* C5 witness: the secondary is active next to the primary's files.
C5_Witness ==
    /\ pc = "CreateDefaultEnv"
    /\ compat = <<"true">>
    /\ bundlerVersion = bundlerTwoVersion
    /\ bundlerVersion[1] = 2
    /\ GemFilesOf(bundlerOneVersion) # {}
    /\ GemFilesOf(bundlerTwoVersion) # {}

\* C6: an error of CheckBundler2Compatibility ends InstallBundler and Run
\* with an error and nothing is rolled back (the secondary stays active, its
\* files stay, no warning); a (false, nil) answer logs the warning and makes
\* the primary active, and then InstallBundler fails exactly when a
\* secondary file could not be removed, Run going on otherwise.
C6_ErrorFatalNegativeRollsBack ==
    /\ compat = <<"err">> =>
         /\ pc = "done"
         /\ result = "error"
         /\ stepErr = "InstallBundler"
         /\ bundlerVersion = bundlerTwoVersion
         /\ Cardinality(GemFilesOf(bundlerTwoVersion)) = 3
         /\ CompatibilityWarning \notin Range(warnings)
    /\ compat = <<"false">> =>
         /\ CompatibilityWarning \in Range(warnings)
         /\ bundlerVersion = bundlerOneVersion
         /\ pc # "uninstallBundlerTwo" =>
              (stepErr = "InstallBundler" <=> GemFilesOf(bundlerTwoVersion) # {})
         /\ (pc # "uninstallBundlerTwo" /\ GemFilesOf(bundlerTwoVersion) = {}) =>
              (Started("CreateDefaultEnv") \/ pc = "CreateDefaultEnv")

\* C6 witness: after a negative answer and a successful removal Run has
\* gone on to later steps.
C6_Witness ==
    /\ compat = <<"false">>
    /\ Started("DetermineRuby")
    /\ CompatibilityWarning \in Range(warnings)

\* C7: the active bundler version changes only none -> primary (in
\* installBundlerOne), primary -> secondary (before any compatibility answer)
\* and secondary -> primary (with the negative answer); the compatibility
\* check is asked at most once; once InstallBundler has returned the active
\* version never changes.
C7_VersionStep ==
    /\ bundlerVersion' # bundlerVersion =>
         \/ /\ bundlerVersion = NoVersion
            /\ bundlerVersion'[1] = 1
            /\ pc = "InstallBundler"
         \/ /\ bundlerVersion[1] = 1
            /\ bundlerVersion'[1] = 2
            /\ compat = <<>> /\ compat' = <<>>
         \/ /\ bundlerVersion[1] = 2
            /\ bundlerVersion' = bundlerOneVersion
            /\ bundlerVersion'[1] = 1
            /\ compat = <<>> /\ compat' = <<"false">>
    /\ Len(compat') <= 1
    /\ InstallBundlerReturned => bundlerVersion' = bundlerVersion
C7_OneWayVersion == [][C7_VersionStep]_vars

\* C7 witness: a run that rolled back to the primary and completed.
C7_Witness ==
    /\ pc = "done"
    /\ result = "ok"
    /\ compat = <<"false">>
    /\ bundlerVersion = bundlerOneVersion
    /\ bundlerTwoVersion # NoVersion

\* DetermineRuby has returned without an error.
DetermineRubyReturnedOk == Started("DetermineRuby") /\ stepErr # "DetermineRuby"
Count(seq, x) == Cardinality({i \in 1..Len(seq) : seq[i] = x})
RuntimeInstallCalls ==
    {c \in Range(calls) :
        c[1] = "Installer" /\ c[2] \in {"openjdk1.8-latest", "ruby", "jruby", "rbx", ""}}
RuntimeFiles == {p \in depFiles : p[1][1] \in {"jvm", "ruby"}}

\* C8: in a run where Setup found no Gemfile, DetermineRuby returns engine
\* "ruby" with the catalog's default ruby version, installBundlerTwo and
\* CheckBundler2Compatibility are never called, and no bundle process runs.
C8_NoGemfileDefaults ==
    (Started("Setup") /\ stepErr # "Setup" /\ ~appHasGemfile) =>
        /\ DetermineRubyReturnedOk => (engine = "ruby" /\ rubyVersion = DefaultRuby)
        /\ ~Called(<<"Installer", "bundler2">>)
        /\ ~Called(<<"Versions", "CheckBundler2Compatibility">>)
        /\ compat = <<>>
        /\ bundlerTwoVersion = NoVersion
        /\ BundleCalls = {}
        /\ ~Called(<<"TempDir", "CopyDirToTemp">>)

\* C8 witness: a complete run without a Gemfile.
C8_Witness ==
    /\ ~gemfileExists
    /\ ~appHasGemfile
    /\ pc = "done"
    /\ result = "ok"
    /\ engine = "ruby"
    /\ rubyVersion = DefaultRuby
    /\ Started("InstallGems")

\* C9: with a Gemfile and declared engine "ruby", DetermineRuby returns the
\* catalog default and records exactly one warning when the declared version
\* is empty, and returns the declared version with no warning otherwise.
C9_DefaultVersionWarned ==
    (appHasGemfile /\ DetermineRubyReturnedOk /\ gemEngine = "ruby") =>
        LET before == IF compat = <<"false">> THEN 1 ELSE 0
        IN /\ engine = "ruby"
           /\ gemVersion = "" =>
                /\ rubyVersion = DefaultRuby
                /\ Count(warnings, NoRubyVersionWarning) = 1
                /\ pc = "InstallRuby" => Len(warnings) = before + 1
           /\ gemVersion # "" =>
                /\ rubyVersion = gemVersion
                /\ Count(warnings, NoRubyVersionWarning) = 0
                /\ pc = "InstallRuby" => Len(warnings) = before

\* C9 witness: the Gemfile names engine ruby without a version.
C9_Witness ==
    /\ appHasGemfile
    /\ pc = "InstallRuby"
    /\ gemEngine = "ruby"
    /\ gemVersion = ""
    /\ rubyVersion = DefaultRuby
    /\ warnings = <<NoRubyVersionWarning>>

\* C10: with a Gemfile and a declared engine other than "ruby" and "jruby",
\* DetermineRuby fails, Run returns an error and neither the JVM nor a
\* runtime is installed; for "jruby" the version is the answer of
\* JrubyVersion, also when that is empty.
C10_UnsupportedEngineFails ==
    /\ (appHasGemfile /\ gemEngine \notin {"unread", "ruby", "jruby"}) =>
         /\ pc = "done"
         /\ result = "error"
         /\ stepErr = "DetermineRuby"
         /\ RuntimeInstallCalls = {}
         /\ RuntimeFiles = {}
         /\ ~Started("InstallJVM") /\ ~Started("InstallRuby")
    /\ (appHasGemfile /\ DetermineRubyReturnedOk /\ gemEngine = "jruby") =>
         /\ engine = "jruby"
         /\ rubyVersion = gemVersion
         /\ Count(warnings, NoRubyVersionWarning) = 0

\* C10 witness: the Gemfile names an engine that is not supported.
C10_Witness ==
    /\ appHasGemfile
    /\ gemEngine = "rbx"
    /\ pc = "done"
    /\ result = "error"

\* --------------------------------------------------------- claims, NodeSpec
NodeProbe == <<"Command", "node --version">>
GemProbe(name) == <<"Versions", name>>

\* C11, the state part: the probe `node --version` and the Gemfile query of
\* each gem have been executed at most once however many calls of NeedsNode
\* there were, none before the first call, every call returned what the
\* first call returned, and InstallNode has been invoked at most once.
C11_State ==
    /\ Count(probes, NodeProbe) <= 1
    /\ \A name \in Range(NodeGems) : Count(probes, GemProbe(name)) <= 1
    /\ answers = <<>> => probes = <<>>
    /\ answers # <<>> => Count(probes, NodeProbe) = 1
    /\ \A i \in 1..Len(answers) : answers[i] = answers[1]
    /\ Cardinality({i \in 1..Len(installs) : installs[i][1] = "node"}) <= 1

\* C11, the step part: once NeedsNode has been called, no step executes a
\* probe.
C11_Step == answers # <<>> => probes' = probes

\* C11: for any number of NeedsNode calls within one run, the probe
\* `node --version` and the Gemfile queries for webpacker/execjs are executed
\* only during the first call, every call returns the same value as the
\* first, and the node install is invoked at most once per run.
C11_NeedsNodeMemoised == [](C11_State) /\ [][C11_Step]_vars

\* NeedsNode has been called MaxNeedsNodeCalls times, the first call
\* answered true with both Gemfile queries made, and node has been installed
\* since, so that a fresh probe could answer otherwise.
C11_Witness ==
    /\ Len(answers) = MaxNeedsNodeCalls
    /\ answers[1]
    /\ Len(probes) = 3
    /\ Installed("node", {"ok"})

\* The Installer has been asked for the dependency `what`.
InstallerRan(what) ==
    Installed(what, {"installErr", "globErr", "renameErr", "linkErr", "ok"})

\* C12, as stated: node and yarn are installed only when yarn.lock exists in
\* the staging directory and node is not on the execution path; where
\* yarn.lock is absent neither is installed.
C12_ToolchainOnlyWithYarnLock ==
    /\ (InstallerRan("node") \/ InstallerRan("yarn"))
         => (yarnLock = "present" /\ ~nodeOnPath)
    /\ yarnLock = "absent" => (~InstallerRan("node") /\ ~InstallerRan("yarn"))

\* C12, amended: node is installed only when node is not on the execution
\* path and the Gemfile declares webpacker or execjs, whether or not
\* yarn.lock exists; yarn is installed only when, besides, InstallNode has
\* succeeded and yarn.lock exists in the staging directory; where yarn.lock
\* is absent yarn is not installed.
C12_NodeByGemfileYarnByLock ==
    /\ InstallerRan("node")
         => (~nodeOnPath /\ \E name \in Range(NodeGems) : gemAnswers[name] = "yes")
    /\ InstallerRan("yarn") => (yarnLock = "present" /\ Installed("node", {"ok"}))
    /\ yarnLock # "present" => ~InstallerRan("yarn")

\* The node block has ended without error in a staging directory without
\* yarn.lock: node is installed, yarn is not.
C12_Witness ==
    /\ npc = "InstallGems"
    /\ yarnLock = "absent"
    /\ Installed("node", {"ok"})
    /\ Installed("yarn", {"noYarnLock"})

\* ---------------------------------------------------------- claims, EnvSpec
\* The state before and after the latest application of writeEnvFiles, and
\* the content of the file of a variable ("<none>" when there is no file).
Applied == Len(envLog) >= 2
Before == envLog[Len(envLog) - 1]
After == envLog[Len(envLog)]
FileOf(f, name) == IF name \in DOMAIN f THEN <<f[name]>> ELSE <<>>
VarOf(e, name) == IF name \in DOMAIN e THEN <<e[name]>> ELSE <<>>

\* C13, as stated, for an application that returns nil and for the names
\* os.Setenv accepts: with clobber=false every variable that was present
\* in the process environment (also with an empty value) keeps its value
\* and its environment file, and every entry whose variable was not present
\* is set; with clobber=true every entry is set to its default.
C13_PresentLeftAlone ==
    (Applied /\ ~After.err) =>
        \A name \in EnvNames :
            /\ (~clobber /\ name \in DOMAIN Before.env) =>
                   /\ VarOf(After.env, name) = VarOf(Before.env, name)
                   /\ FileOf(After.files, name) = FileOf(Before.files, name)
            /\ (name \in DOMAIN defaults /\ (clobber \/ name \notin DOMAIN Before.env)) =>
                   /\ VarOf(After.env, name) = <<defaults[name]>>
                   /\ FileOf(After.files, name) = <<defaults[name]>>

\* C14: for every initial process environment and every defaults mapping,
\* two applications of writeEnvFiles(defaults, false) in a row that both
\* return nil leave the same process environment and the same environment
\* files, with the same contents, as the first of them.
C14_SecondApplicationChangesNothing ==
    (Len(envLog) = 3 /\ ~clobber /\ ~envLog[2].err /\ ~envLog[3].err) =>
        /\ envLog[3].env = envLog[2].env
        /\ envLog[3].files = envLog[2].files

\* Two applications with clobber=false have returned nil; the first set a
\* variable that was not present, and the second acted again (on an entry
\* whose variable reads as empty).
C14_Witness ==
    /\ Len(envLog) = 3
    /\ ~clobber
    /\ ~envLog[2].err
    /\ ~envLog[3].err
    /\ envLog[2].env # envLog[1].env
    /\ envLog[2].written # {}
    /\ envLog[3].written # {}

\* C15, as stated: whenever writeEnvFiles returns, with or without an
\* error, every variable it set has an environment file holding the value
\* the variable has, and every environment file it wrote is that of a
\* variable set to the content of the file.
C15_EnvAndFilesInStep ==
    Applied =>
        /\ \A name \in After.set :
               FileOf(After.files, name) = VarOf(After.env, name)
        /\ \A name \in After.written :
               VarOf(After.env, name) = FileOf(After.files, name)

\* ------------------------------------------------------- claims, Spec (ctd.)
\* C16, as stated, for the collaborator call it names first: when
\* TempDir.CopyDirToTemp has been called and InstallGems has returned without
\* any bundle command having run (the scratch copy could not be made, or a
\* later call failed before `bundle install`), Run has returned the error of
\* InstallGems.
C16_CopyFailureReported ==
    (Called(<<"TempDir", "CopyDirToTemp">>) /\ BundleCalls = {} /\ InstallGemsReturned)
        => (pc = "done" /\ result = "error" /\ stepErr = "InstallGems")

\* ---------------------------------------------------------- claims, SumSpec
\* A path below the directory .cloudfoundry of the build directory, and the
\* paths at which the trees t and u differ (a file at one only, or other
\* bytes).
UnderCloudfoundry(relpath) ==
    Len(relpath) > 2 /\ relpath[1] = ".cloudfoundry" /\ relpath[2] = "/"
Differing(t, u) ==
    {relpath \in RelPaths : FileOf(t, relpath) # FileOf(u, relpath)}

\* C17: taking the digest as an injective function of the stream fed to
\* the hash, for any two calls of CalcChecksum that returned a digest: on
\* the same tree they returned the same digest; when one regular file that
\* is not under .cloudfoundry/ has other bytes, has been added or has been
\* removed (whatever happened under .cloudfoundry/), the digests differ;
\* when the trees differ under .cloudfoundry/ only, the digests are equal.
C17_DigestTracksTree ==
    \A i, j \in 1..Len(digests) :
        (i < j /\ digests[i].ok /\ digests[j].ok) =>
            LET diff == Differing(digests[i].tree, digests[j].tree)
                outside == {relpath \in diff : ~UnderCloudfoundry(relpath)}
            IN /\ diff = {} => digests[j].sum = digests[i].sum
               /\ Cardinality(outside) = 1 => digests[j].sum # digests[i].sum
               /\ outside = {} => digests[j].sum = digests[i].sum

\* Two digests of trees that differ in the bytes of .cloudfoundryb, a file
\* of the build directory itself, and in a file under .cloudfoundry/.
C17_Witness ==
    /\ Len(digests) = 2
    /\ digests[1].ok
    /\ digests[2].ok
    /\ Differing(digests[1].tree, digests[2].tree)
         = { <<".cloudfoundry", "b">>, <<".cloudfoundry", "/", "a">> }
    /\ <<".cloudfoundry", "b">> \in DOMAIN digests[1].tree
    /\ <<".cloudfoundry", "b">> \in DOMAIN digests[2].tree

\* The positions in `calls` of the calls of the Installer, and of the call c.
InstallerCalls == {i \in 1..Len(calls) : calls[i][1] = "Installer"}
CallsOf(c) == {i \in 1..Len(calls) : calls[i] = c}
FreetdsFiles == {Path(<<"freetds", "lib">>, "libsybdb.so", NoVersion)}

\* C19, as stated: whenever a dependency has been installed into the
\* dependency area, the first fingerprint had been computed and Cache.Restore
\* had been called (and had succeeded) before; and no dependency is installed
\* after Cache.Save.
C19_InstallsAfterRestore ==
    /\ \A i \in InstallerCalls :
           /\ Started("CalcChecksumBefore")
           /\ \E j \in CallsOf(<<"Cache", "Restore">>) : j < i
    /\ \A i \in InstallerCalls : \A j \in CallsOf(<<"Cache", "Save">>) : i < j

\* C19, amended: the FreeTDS native library is installed first, before the
\* fingerprint and Cache.Restore; every other dependency is installed after
\* the first fingerprint has been computed and Cache.Restore has been called
\* and has succeeded, the dependency area holding nothing but FreeTDS until
\* then; and no dependency is installed after Cache.Save.
C19_InstallsButFreetdsAfterRestore ==
    LET others == {i \in 2..Len(calls) : calls[i][1] = "Installer"}
        restores == CallsOf(<<"Cache", "Restore">>)
    IN /\ calls # <<>> => calls[1] = <<"Installer", "freetds">>
       /\ \A i \in others : calls[i] # <<"Installer", "freetds">>
       /\ others # {} => Started("CalcChecksumBefore")
       /\ \A i \in others : \E j \in restores : j < i
       /\ pc = "InstallBundler" => stepErr = ""
       /\ restores = {} => depFiles \subseteq FreetdsFiles
       /\ \A j \in CallsOf(<<"Cache", "Save">>) : \A i \in others : i < j

\* A run has ended with FreeTDS, both bundlers, the runtime, rubygems, node
\* and yarn installed and Cache.Save called.
C19_Witness ==
    /\ pc = "done"
    /\ result = "ok"
    /\ Called(<<"Cache", "Save">>)
    /\ {<<"Installer", "freetds">>, <<"Installer", "bundler">>,
        <<"Installer", "bundler2">>, <<"Installer", "ruby">>,
        <<"Installer", "rubygems">>, <<"Installer", "node">>,
        <<"Installer", "yarn">>} \subseteq Range(calls)

\* The positions in `steps` of the step `step`.
StepsOf(step) == {i \in 1..Len(steps) : steps[i] = step}
JvmCall == <<"Installer", "openjdk1.8-latest">>
JvmFiles == {p \in depFiles : p[1][1] = "jvm"}

\* C20: InstallJVM is called in a run if and only if the engine DetermineRuby
\* resolved is "jruby"; when it is called it has returned nil (with the JDK
\* of the build directory, or with the JVM installed, linked and jruby.sh
\* written) before InstallRuby installs the runtime; for any other engine
\* there is no JVM install and no profile fragment jruby.sh.
C20_JvmIffJruby ==
    LET jvmSteps == StepsOf("InstallJVM")
    IN IF engine = "jruby"
       THEN /\ (DetermineRubyReturnedOk /\ pc # "InstallJVM") => jvmSteps # {}
            /\ \A i \in StepsOf("InstallRuby") : \E j \in jvmSteps : j < i
            /\ (Started("InstallRuby") /\ Called(JvmCall))
                  => (JvmFiles # {} /\ "jruby.sh" \in profileD)
       ELSE /\ jvmSteps = {}
            /\ ~Called(JvmCall)
            /\ JvmFiles = {}
            /\ "jruby.sh" \notin profileD

\* InstallRuby has run for engine "jruby" after InstallJVM installed the JVM
\* and wrote jruby.sh.
C20_Witness ==
    /\ engine = "jruby"
    /\ Started("InstallRuby")
    /\ Called(JvmCall)
    /\ "jruby.sh" \in profileD
    /\ Called(<<"Installer", "jruby">>)

\* A script run by ruby: its first line is a shebang whose last word is ruby.
RubyScript(line) == Len(line) >= 2 /\ line[1] = "#!" /\ line[Len(line)] = "ruby"

\* The regular files reached through the entries that satisfy `where`.
ScriptsReached(where(_)) ==
    {Resolve(shTree, path) : path \in {q \in DOMAIN shTree : where(q)}}
        \ {NoPath}
InRuntime(path) == InBin(path) /\ shTree[path].kind = "link"
                       /\ shTree[path].to[1] = RubyBinDir
InBinOrGemBin(path) == InBin(path) \/ InGemBin(path)
AllPortable(paths) ==
    \A path \in paths :
        (shTree[path].kind = "file" /\ RubyScript(shTree[path].line))
            => shTree[path].line = PortableShebang

\* C21: when InstallRuby has just returned nil, every script of the runtime
\* reachable in DepDir/bin has the portable shebang, and when the
\* RewriteShebangs after InstallGems has returned nil, every script in
\* DepDir/bin and DepDir/vendor_bundle/ruby/*/bin has it.
C21_ShebangsPortableAtBothPoints ==
    /\ shpc = "InstallGems" => AllPortable(ScriptsReached(InRuntime))
    /\ shpc = "SymlinkBundlerIntoRubygems" => AllPortable(ScriptsReached(InBinOrGemBin))

\* The calls `op` InstallGems has made so far, as positions of gruns.
GemsEvents(op) == {i \in 1..Len(gruns) : gruns[i].op = op}
StagingHas(name, content) ==
    /\ Exists(GemsFs, <<"build", name>>)
    /\ Content(GemsFs, <<"build", name>>) = content

\* C22: `bundle install` is run with --deployment iff the scratch copy holds
\* a lock file when it is run; when the lock file was generated on Windows,
\* it has been removed from the scratch copy before and the flag is left
\* out.
C22_DeploymentIffLockInScratch ==
    \A i \in GemsEvents("bundle install") :
        /\ gruns[i].flag <=> gruns[i].lock
        /\ StagingHas(LockName, "windows lock") =>
              /\ ~gruns[i].flag
              /\ ~gruns[i].lock
              /\ \E j \in GemsEvents("os.Remove " \o LockName) : j < i /\ gruns[j].flag

C22_Witness ==
    /\ gret = "nil"
    /\ StagingHas(LockName, "windows lock")
    /\ \E i \in GemsEvents("bundle install") : ~gruns[i].flag

\* C24: with a checked-in .bundle/config, `bundle install` does not see the
\* checked-in content in the scratch copy, and once the install has
\* succeeded and "Save .bundle/config" is over, the scratch copy holds no
\* .bundle/config: it is at $BUNDLE_CONFIG.
C24_CheckedInConfigKeptFromInstall ==
    /\ \A i \in GemsEvents("bundle install") :
          StagingHas(ConfigName, "checked in") => gruns[i].config # "checked in"
    /\ (gpc = "SaveLock" /\ gruns[Len(gruns)].config # "none") =>
          /\ ~Exists(GemsFs, <<"temp", ConfigName>>)
          /\ Exists(GemsFs, GlobalConfig)
          /\ Content(GemsFs, GlobalConfig) = gruns[Len(gruns)].config

\* C25: in every step of InstallGems in which each os.Remove so far has
\* removed its file, every file of the staging directory is still there
\* with the content it had.
C25_Step ==
    (\A i \in 1..Len(gruns') :
        (gruns'[i].op \in {"os.Remove " \o LockName, "os.Remove " \o ConfigName})
            => gruns'[i].flag)
    => \A path \in InArea(GemsFs, "build") :
          /\ path \in DOMAIN gfiles'
          /\ gnodes'[gfiles'[path]] = gnodes[gfiles[path]]
C27_Step ==
    \A path \in InArea(GemsFs, "bin") :
        /\ path \in DOMAIN gfiles'
        /\ (gfiles'[path] # gfiles[path] \/ gnodes'[gfiles'[path]] # gnodes[gfiles[path]])
              => /\ path[2] = BundleStub
                 /\ gnodes'[gfiles'[path]] = gnodes'[gfiles'[<<"binstubs", BundleStub>>]]
                 /\ gruns[Len(gruns)].op = "bundle install"
                 /\ gruns'[Len(gruns')].op = "bundle binstubs"
C27_BinstubsNeverOverwrite == [][C27_Step]_vars

C27_Witness ==
    /\ gpc = "SaveConfig"
    /\ Content(GemsFs, <<"bin", "rake">>) = "runtime"
    /\ Content(GemsFs, <<"bin", "rails">>) = "binstub rails"
    /\ Content(GemsFs, <<"bin", BundleStub>>) = "binstub bundler"

SecretWanted == secApp.gemfile /\ secApp.lock /\ secApp.rails
RunsSoFar == 1..Len(secRuns)

\* C23: `rake secret` is run only with a Gemfile, a lock file, rails >=
\* 4.1.0.beta1 and an empty SecretKeyBase; the secret it printed is in the
\* metadata when Cache.Save is called in that run; and of two consecutive
\* successful runs, the second having restored the saved cache, the second
\* does not run `rake secret` and its ruby.sh exports the same
\* SECRET_KEY_BASE as the first's.
C23_SecretGeneratedOnce ==
    /\ \A i \in RunsSoFar :
          secRuns[i].profile.rake => (SecretWanted /\ secRuns[i].before = <<>>)
    /\ \A i \in RunsSoFar :
          (secRuns[i].saveCalled /\ SecretWanted) =>
              /\ secRuns[i].atSave # <<>>
              /\ secRuns[i].atSave = secRuns[i].profile.secret
    /\ \A i \in RunsSoFar \ {1} :
          (secRuns[i - 1].result = "ok" /\ secRuns[i].result = "ok"
              /\ secRuns[i].restored) =>
              /\ ~secRuns[i].profile.rake
              /\ secRuns[i].profile.exported = secRuns[i - 1].profile.exported
              /\ secRuns[i].profile.exported =>
                    secRuns[i].profile.secret = secRuns[i - 1].profile.secret

C23_Witness ==
    /\ Len(secRuns) = 2
    /\ secRuns[1].result = "ok"
    /\ secRuns[1].profile.rake
    /\ secRuns[2].result = "ok"
    /\ secRuns[2].restored
    /\ secRuns[2].profile.exported

RubygemsCalled(c) == \E i \in 1..Len(rgOut[1].calls) : rgOut[1].calls[i] = c
\* The conditions under which the catalog's rubygems is to be installed.
RubygemsDue ==
    /\ Cardinality(rgIn.versions) = 1
    /\ rgIn.current.ok
    /\ rgIn.current.parses
    /\ \E version \in rgIn.versions : VersionLess(rgIn.current.version, version)
    /\ rgIn.engine \notin {"jruby", "err"}

\* C26: UpdateRubygems calls the Installer and `ruby setup.rb` only when the
\* catalog lists exactly one rubygems version, `gem --version` answers a
\* version that does not satisfy ">= that version" and the engine is not
\* jruby; with no version it does nothing and returns nil, with more than
\* one it returns an error, and when it skips (current version new enough, or
\* jruby) it returns nil without either call.
C26_RubygemsOnlyWhenDue ==
    rgOut # <<>> =>
        /\ (RubygemsCalled(InstallRubygems) \/ RubygemsCalled(SetupRubygems)) => RubygemsDue
        /\ (RubygemsDue /\ ~rgOut[1].err) =>
              (RubygemsCalled(InstallRubygems) /\ RubygemsCalled(SetupRubygems))
        /\ rgIn.versions = {} => (~rgOut[1].err /\ rgOut[1].calls = <<>>)
        /\ Cardinality(rgIn.versions) > 1 => (rgOut[1].err /\ rgOut[1].calls = <<>>)
        /\ (/\ Cardinality(rgIn.versions) = 1
            /\ rgIn.current.ok
            /\ rgIn.current.parses
            /\ \/ \E version \in rgIn.versions :
                      ~VersionLess(rgIn.current.version, version)
               \/ rgIn.engine = "jruby")
              => /\ ~rgOut[1].err
                 /\ ~RubygemsCalled(InstallRubygems)
                 /\ ~RubygemsCalled(SetupRubygems)

C26_Witness ==
    /\ rgOut # <<>>
    /\ RubygemsDue
    /\ ~rgOut[1].err
    /\ RubygemsCalled(SetupRubygems)

\* C28: every call of IndentedWriter.Write returns, having handed the
\* padded input to the underlying writer exactly once.
C28_WriteReturns ==
    <>(wstate = "returned" /\ wunder = <<Indent(wIn.pad, wIn.p)>>)

====
